---- MODULE Spec2Model ----
(***************************************************************************)
(* Order lifecycle and payment settlement of mgkw_platform_backend.        *)
(*                                                                         *)
(* The store is MySQL (REPEATABLE READ) through Tortoise ORM: a write made *)
(* inside a transaction is staged, its row write-locked, until the         *)
(* transaction commits, and is dropped when it rolls back; the reads of a  *)
(* transaction see the snapshot taken at its first read.  Redis holds the  *)
(* caches and the distributed locks; Redis writes are immediate and are    *)
(* never rolled back.  Every await of the code that touches the store, a   *)
(* cache or a lock is a separate step of the handler that runs it.         *)
(* Functions decorated with @atomic() open the transaction before the body *)
(* runs and commit after the body has returned, i.e. after the body's      *)
(* "async with redis_client.lock(...)" block has released the lock.        *)
(***************************************************************************)
EXTENDS Integers, FiniteSets, Sequences, TLC

(* ------------------------------- bounds -------------------------------- *)
NumProcs == 2
MaxOps == 2
MaxOrders == 1
MaxTasks == 2
MaxCreated == 2

Procs == 1..NumProcs
Orders == 1..MaxOrders
Users == {1, 2}
Times == {1, 2}
TxIds == 1..(MaxOrders + 1)
Created == 1..MaxCreated

(* ---------------------- program constants and enums -------------------- *)
PENDING == "pending"
PAID == "paid"
CANCELLED == "cancelled"
TIMEOUT_CLOSED == "timeout_closed"
OrderStatus == {PENDING, PAID, CANCELLED, TIMEOUT_CLOSED}
Terminal == {PAID, CANCELLED, TIMEOUT_CLOSED}

WECHAT == "wechat"
OrderItemType == {"physical", "vip", "design"}

NOTPAY == "NOTPAY"
SUCCESS == "SUCCESS"
CLOSED == "CLOSED"

NoRow == [exists |-> FALSE, user_id |-> 0, status |-> PENDING, pay_time |-> 0,
          payment_type |-> WECHAT, item_type |-> "physical"]
NoPay == [exists |-> FALSE, trade_state |-> NOTPAY, transaction_id |-> 0]
NoCache == "none"
NoWrite == [w |-> FALSE, status |-> PENDING, set_pt |-> FALSE, pay_time |-> 0]
NoPayWrite == [w |-> FALSE, trade_state |-> NOTPAY, transaction_id |-> 0]
NoSnap == [taken |-> FALSE, row |-> NoRow]

Products == {1, 2}
Skus == {1, 2}
Designs == {1}
Prices == {1, 2}
ProductType == {"PHYSICAL", "DESIGN", "VIP"}
expire_minutes == 30

NoProduct == [exists |-> FALSE, product_type |-> "PHYSICAL", is_published |-> FALSE]
NoSku == [exists |-> FALSE, product_id |-> 0, price |-> 0, is_enabled |-> FALSE, stock |-> 0]
NoDetail == [total_amount |-> 0, expire_time |-> 0, merchant_order_no |-> 0, serial_no |-> 0]
NoMember == [exists |-> FALSE, start_time |-> 0, end_time |-> 0, total_days |-> 0]
NoDesign == [exists |-> FALSE, state |-> "DRAFT", product_id |-> 0]
CreateKeys == Users \X Products \X Skus
NoInfo == [found |-> FALSE, product |-> NoProduct, skus |-> [s \in Skus |-> NoSku]]
NoItem == [w |-> FALSE, item_type |-> "physical", product_id |-> 0, sku_id |-> 0,
           quantity |-> 0, unit_price |-> 0, total_price |-> 0]
NoNew == [w |-> FALSE, id |-> 0, detail |-> NoDetail, item |-> NoItem, snap |-> FALSE]

VARIABLES
    order,       \* committed rows of table "order", by order id
    pay,         \* committed rows of table "wechat_payment", by the order of their out_trade_no
    fulfil,      \* committed fulfilment effects (VIP extensions / license rows), by order id
    cache,       \* Redis key order_detail:item:<id>: the cached status, or NoCache
    prepay,      \* Redis key wx_pay:prepay_id:<user>:<id>: the cached session number, or 0
    orderLock,   \* Redis lock order:modify:<id>: the holder, or 0
    cbLock,      \* Redis lock wx_pay:callback:<transaction id>: the holder, or 0
    closedLock,  \* Redis lock wx_pay:callback:closed:<out_trade_no>: the holder, or 0
    prepayLock,  \* Redis lock lock:wx_pay:prepay_id:<user>:<id>: the holder, or 0
    tasks,       \* deliveries of close_expired_order_task still to come, by order id
    sessions,    \* prepay sessions created at the gateway, by order id
    proc,        \* the request / task handlers in flight
    started,     \* number of operations started so far
    wins,        \* per order and operation, how many calls have returned true
    product,     \* committed rows of table "product"
    sku,         \* committed rows of table "sku"
    productCache,\* Redis key product_bk:with_skus:<id>: the cached product with its SKUs
    detail,      \* the amount, expiry and number columns of the committed "order" rows
    items,       \* committed rows of table "order_item", by order id
    snapshots,   \* number of committed rows of table "product_snapshot", by product id
    createLock,  \* Redis lock order:create:<user>:<product>:<sku>: the holder, or 0
    vip,         \* the committed row of table "user_vip" a lookup by user id meets first
    license,     \* committed rows of table "user_design_license", in insertion order
    design,      \* committed rows of table "design"
    vipRows,     \* number of committed rows of table "user_vip", by user id
    login        \* Redis key login_user_info:<user>: total_days of the cached membership

shopVars == <<product, sku, productCache, detail, items, snapshots, createLock>>

grantVars == <<vip, license, design, login, vipRows>>

vars == <<order, pay, fulfil, cache, prepay, orderLock, cbLock, closedLock, prepayLock,
          tasks, sessions, proc, started, wins, shopVars, grantVars>>

payVars == <<pay, fulfil, prepay, cbLock, closedLock, prepayLock, sessions>>

Idle == [op |-> "idle", pc |-> "idle", oid |-> 0, uid |-> 0, t |-> 0, ret |-> "none",
         st |-> "none", res |-> "none", msg |-> "none", txo |-> NoWrite,
         ev |-> "none", txid |-> 0, rec |-> NoPay, txp |-> NoPayWrite, txf |-> 0,
         snap |-> NoSnap, ok |-> FALSE, hc |-> 0, hr |-> FALSE, pre |-> FALSE,
         pid |-> 0, sid |-> 0, info |-> NoInfo, new |-> NoNew,
         timeout |-> 0, blocking |-> TRUE, tries |-> 0, lock |-> FALSE,
         member |-> NoMember, days |-> 0, ins |-> FALSE]

(* ------------------------------ the store ------------------------------ *)
\* another transaction holds the write lock of order row o
RowLockedByOther(p, o) ==
    \E q \in Procs \ {p} : proc[q].oid = o /\ proc[q].txo.w

\* another transaction holds the write lock of the payment row of order o
PayRowLockedByOther(p, o) ==
    \E q \in Procs \ {p} : proc[q].oid = o /\ proc[q].txp.w

\* a row as transaction p reads it: its own staged write over its snapshot
ReadOrder(p, o) ==
    LET base == IF proc[p].snap.taken THEN proc[p].snap.row ELSE order[o] IN
    IF proc[p].txo.w /\ proc[p].oid = o
    THEN [base EXCEPT !.status = proc[p].txo.status,
                      !.pay_time = IF proc[p].txo.set_pt THEN proc[p].txo.pay_time ELSE @]
    ELSE base

\* BaseService.update_by_id of the order inside the caller's transaction
StageStatus(s) == [w |-> TRUE, status |-> s, set_pt |-> FALSE, pay_time |-> 0]
StagePaid_no_time(t) == [w |-> TRUE, status |-> PAID, set_pt |-> FALSE, pay_time |-> 0]
StagePaid(t) == [w |-> TRUE, status |-> PAID, set_pt |-> TRUE, pay_time |-> t]

\* no product is on sale and nothing has been ordered through the catalogue
EmptyShop(ids) ==
    /\ product = [pr \in Products |-> NoProduct]
    /\ sku = [s \in Skus |-> NoSku]
    /\ productCache = [pr \in Products |-> NoInfo]
    /\ detail = [o \in ids |-> NoDetail]
    /\ items = [o \in ids |-> <<>>]
    /\ snapshots = [pr \in Products |-> 0]
    /\ createLock = [k \in CreateKeys |-> 0]

\* nothing has been granted to any user
NoGrants ==
    /\ vip = [u \in Users |-> NoMember]
    /\ license = <<>>
    /\ design = [d \in Designs |-> NoDesign]
    /\ login = [u \in Users |-> 0]
    /\ vipRows = [u \in Users |-> 0]

\* no order has been placed and no handler runs
NothingOrdered(ids) ==
    /\ order = [o \in ids |-> NoRow]
    /\ pay = [o \in ids |-> NoPay]
    /\ fulfil = [o \in ids |-> 0]
    /\ cache = [o \in ids |-> NoCache]
    /\ prepay = [u \in Users |-> [o \in ids |-> 0]]
    /\ orderLock = [o \in ids |-> 0]
    /\ cbLock = [x \in TxIds |-> 0]
    /\ closedLock = [o \in ids |-> 0]
    /\ prepayLock = [u \in Users |-> [o \in ids |-> 0]]
    /\ tasks = [o \in ids |-> 0]
    /\ sessions = [o \in ids |-> 0]
    /\ proc = [p \in Procs |-> Idle]
    /\ started = 0
    /\ wins = [o \in ids |-> [close |-> 0, timeout |-> 0, mark |-> 0]]

Init == NothingOrdered(Orders) /\ EmptyShop(Orders) /\ NoGrants

(* ------------------------- OrderService.create_order -------------------- *)
\* The row is created PENDING, the closure task is scheduled and the detail is cached.
CreateOrder(u, it) ==
    \E o \in Orders :
        /\ ~order[o].exists
        /\ \A o2 \in Orders : o2 < o => order[o2].exists
        /\ order' = [order EXCEPT ![o] = [exists |-> TRUE, user_id |-> u, status |-> PENDING,
                                          pay_time |-> 0, payment_type |-> WECHAT,
                                          item_type |-> it]]
        /\ tasks' = [tasks EXCEPT ![o] = MaxTasks]
        /\ cache' = [cache EXCEPT ![o] = PENDING]
        /\ UNCHANGED <<orderLock, proc, started, wins, payVars, shopVars, grantVars>>

\* the 30-minute TTL of the order-detail cache entry runs out
CacheExpire(o) ==
    /\ cache[o] # NoCache
    /\ cache' = [cache EXCEPT ![o] = NoCache]
    /\ UNCHANGED <<order, orderLock, tasks, proc, started, wins, payVars, shopVars, grantVars>>

(* ------------------------- start of an operation ------------------------ *)
CanStart(p) ==
    /\ proc[p].op = "idle"
    /\ \A q \in Procs : q < p => proc[q].op # "idle"
    /\ started < MaxOps

StartCloseOrder(p, o, u) ==
    /\ CanStart(p)
    /\ proc' = [proc EXCEPT ![p] = [Idle EXCEPT !.op = "close", !.pc = "lock", !.oid = o, !.uid = u]]
    /\ started' = started + 1
    /\ UNCHANGED <<order, cache, orderLock, tasks, wins, payVars, shopVars, grantVars>>

\* one delivery of close_expired_order_task
StartCloseTimeout(p, o) ==
    /\ CanStart(p)
    /\ tasks[o] > 0
    /\ tasks' = [tasks EXCEPT ![o] = @ - 1]
    /\ proc' = [proc EXCEPT ![p] = [Idle EXCEPT !.op = "timeout", !.pc = "lock", !.oid = o]]
    /\ started' = started + 1
    /\ UNCHANGED <<order, cache, orderLock, wins, payVars, shopVars, grantVars>>

StartMarkPaid(p, o, t) ==
    /\ CanStart(p)
    /\ proc' = [proc EXCEPT ![p] = [Idle EXCEPT !.op = "mark", !.pc = "lock", !.oid = o, !.t = t]]
    /\ started' = started + 1
    /\ UNCHANGED <<order, cache, orderLock, tasks, wins, payVars, shopVars, grantVars>>

StartGetDetail(p, o, u) ==
    /\ CanStart(p)
    /\ proc' = [proc EXCEPT ![p] = [Idle EXCEPT !.op = "detail", !.pc = "gd_cache", !.oid = o,
                                                !.uid = u, !.ret = "gd_done"]]
    /\ started' = started + 1
    /\ UNCHANGED <<order, cache, orderLock, tasks, wins, payVars, shopVars, grantVars>>

(* ------------------------------ RedisLock ------------------------------- *)
AcquireOrderLock(p) ==
    /\ proc[p].pc = "lock"
    /\ orderLock[proc[p].oid] = 0
    /\ orderLock' = [orderLock EXCEPT ![proc[p].oid] = p]
    /\ proc' = [proc EXCEPT ![p].pc =
                    CASE proc[p].op = "close" -> "co_read"
                      [] proc[p].op = "timeout" -> "ct_read"
                      [] OTHER -> "gd_cache",
                    ![p].ret = "mp_check"]
    /\ UNCHANGED <<order, cache, tasks, started, wins, payVars, shopVars, grantVars>>

\* the bounded wait runs out while another handler holds the lock: LockError.
\* Inside on_payment_success the error is caught and turned into False.
OrderLockTimeout(p) ==
    /\ proc[p].pc = "lock"
    /\ orderLock[proc[p].oid] # 0
    /\ proc' = [proc EXCEPT ![p].pc = IF proc[p].op = "hook" THEN "ps_end" ELSE "commit",
                            ![p].res = IF proc[p].op = "hook" THEN "none" ELSE "raise",
                            ![p].ok = FALSE]
    /\ UNCHANGED <<order, cache, orderLock, tasks, started, wins, payVars, shopVars, grantVars>>

\* the 10-second TTL of order:modify:<id> runs out while its holder is still inside
OrderLockExpire(o) ==
    /\ orderLock[o] # 0
    /\ orderLock' = [orderLock EXCEPT ![o] = 0]
    /\ UNCHANGED <<order, cache, tasks, proc, started, wins, payVars, shopVars, grantVars>>

\* RedisLock.__aexit__ (the unlock only removes the caller's own lock);
\* mark_order_as_paid called by on_payment_success returns to it here
ReleaseOrderLock(p) ==
    /\ proc[p].pc = "unlock"
    /\ orderLock' = [orderLock EXCEPT ![proc[p].oid] = IF @ = p THEN 0 ELSE @]
    /\ proc' = [proc EXCEPT ![p].pc = IF proc[p].op = "hook" THEN "ps_handle" ELSE "commit",
                            ![p].ok = (proc[p].res = "true")]
    /\ wins' = IF proc[p].op = "hook" /\ proc[p].res = "true"
               THEN [wins EXCEPT ![proc[p].oid].mark = @ + 1] ELSE wins
    /\ UNCHANGED <<order, cache, tasks, started, payVars, shopVars, grantVars>>

(* ----------------- RedisLock.__aenter__ and __aexit__, step by step ------ *)
\* the timeout argument in hundredths of a second; None when it is not given
None == -1
Timeouts == {None, 0, 5, 20}
DefaultRetries == 100

\* retry_count = int(self.timeout * 10) if self.timeout else 100
retry_count(timeout) ==
    IF timeout = None \/ timeout = 0 THEN DefaultRetries ELSE (timeout * 10) \div 100

\* async with redis_client.lock("order:modify:<o>", blocking = ..., timeout = ...)
StartRedisLock(p, o, timeout, blocking) ==
    /\ CanStart(p)
    /\ started' = started + 1
    /\ proc' = [proc EXCEPT ![p] = [Idle EXCEPT !.op = "redislock", !.pc = "rl_enter", !.oid = o,
                                                !.timeout = timeout, !.blocking = blocking]]
    /\ UNCHANGED <<order, cache, orderLock, tasks, wins, payVars, shopVars, grantVars>>

\* one pass of __aenter__: a call of lock_manager.lock, which fails with LockError while
\* the key is held; the blocking loop sleeps and goes on unless this was its last pass, and
\* raises without a call when retry_count is 0
LockAttempt(p) ==
    /\ proc[p].pc = "rl_enter"
    /\ LET o == proc[p].oid
           n == IF proc[p].blocking THEN retry_count(proc[p].timeout) ELSE 1 IN
       IF n = 0
       THEN /\ proc' = [proc EXCEPT ![p].pc = "done", ![p].res = "raise"]
            /\ UNCHANGED orderLock
       ELSE IF orderLock[o] = 0
       THEN /\ orderLock' = [orderLock EXCEPT ![o] = p]
            /\ proc' = [proc EXCEPT ![p].pc = "rl_body", ![p].tries = @ + 1, ![p].lock = TRUE]
       ELSE /\ UNCHANGED orderLock
            /\ proc' = IF proc[p].tries + 1 < n
                       THEN [proc EXCEPT ![p].tries = @ + 1]
                       ELSE [proc EXCEPT ![p].tries = @ + 1, ![p].pc = "done",
                                         ![p].res = "raise"]
    /\ UNCHANGED <<order, cache, tasks, started, wins, payVars, shopVars, grantVars>>

\* the block is left, normally or by an exception: __aexit__ unlocks what __aenter__ got;
\* an unlock that fails because the key has expired is swallowed
LeaveBlock(p, exc) ==
    /\ proc[p].pc = "rl_body"
    /\ orderLock' = IF proc[p].lock
                    THEN [orderLock EXCEPT ![proc[p].oid] = IF @ = p THEN 0 ELSE @]
                    ELSE orderLock
    /\ proc' = [proc EXCEPT ![p].pc = "done", ![p].res = IF exc THEN "raise" ELSE "ok"]
    /\ UNCHANGED <<order, cache, tasks, started, wins, payVars, shopVars, grantVars>>

(* ------------------------- OrderService.close_order --------------------- *)
\* the order closed for whoever asks
CloseOrderRead_anyone(p) ==
    /\ proc[p].pc = "co_read"
    /\ LET row == ReadOrder(p, proc[p].oid) IN
       proc' = [proc EXCEPT
                  ![p].st = IF row.exists THEN row.status ELSE "none",
                  ![p].res = CASE ~row.exists -> "raise"
                               [] row.status # PENDING -> "false"
                               [] OTHER -> "none",
                  ![p].pc = IF row.exists /\ row.status = PENDING
                            THEN "co_write" ELSE "unlock"]
    /\ UNCHANGED <<order, cache, orderLock, tasks, started, wins, payVars, shopVars, grantVars>>

CloseOrderRead(p) ==
    /\ proc[p].pc = "co_read"
    /\ LET row == ReadOrder(p, proc[p].oid) IN
       proc' = [proc EXCEPT
                  ![p].st = IF row.exists THEN row.status ELSE "none",
                  ![p].res = CASE ~row.exists -> "raise"
                               [] row.user_id # proc[p].uid -> "raise"
                               [] row.status # PENDING -> "false"
                               [] OTHER -> "none",
                  ![p].pc = IF row.exists /\ row.user_id = proc[p].uid /\ row.status = PENDING
                            THEN "co_write" ELSE "unlock"]
    /\ UNCHANGED <<order, cache, orderLock, tasks, started, wins, payVars, shopVars, grantVars>>

CloseOrderWrite(p) ==
    /\ proc[p].pc = "co_write"
    /\ ~RowLockedByOther(p, proc[p].oid)
    /\ proc' = [proc EXCEPT ![p].txo = StageStatus(CANCELLED), ![p].res = "true",
                            ![p].pc = "unlock"]
    /\ UNCHANGED <<order, cache, orderLock, tasks, started, wins, payVars, shopVars, grantVars>>

(* --------------------- OrderService.close_timeout_order ----------------- *)
CloseTimeoutRead(p) ==
    /\ proc[p].pc = "ct_read"
    /\ LET row == ReadOrder(p, proc[p].oid) IN
       proc' = [proc EXCEPT
                  ![p].st = IF row.exists THEN row.status ELSE "none",
                  ![p].res = IF row.exists /\ row.status = PENDING THEN "none" ELSE "false",
                  ![p].pc = IF row.exists /\ row.status = PENDING THEN "ct_write" ELSE "unlock"]
    /\ UNCHANGED <<order, cache, orderLock, tasks, started, wins, payVars, shopVars, grantVars>>

CloseTimeoutWrite(p) ==
    /\ proc[p].pc = "ct_write"
    /\ ~RowLockedByOther(p, proc[p].oid)
    /\ proc' = [proc EXCEPT ![p].txo = StageStatus(TIMEOUT_CLOSED), ![p].res = "true",
                            ![p].pc = "unlock"]
    /\ UNCHANGED <<order, cache, orderLock, tasks, started, wins, payVars, shopVars, grantVars>>

(* ---------------------- OrderService.get_order_detail ------------------- *)
\* the caller's check_user_ownership argument: only GET /order/detail passes True
ChecksOwner(p) == proc[p].op = "detail"

GetDetailCache(p) ==
    /\ proc[p].pc = "gd_cache"
    /\ LET o == proc[p].oid IN
       IF cache[o] # NoCache
       THEN proc' = [proc EXCEPT
                       ![p].st = IF ChecksOwner(p) /\ order[o].user_id # proc[p].uid
                                 THEN "raise" ELSE cache[o],
                       ![p].pc = proc[p].ret]
       ELSE proc' = [proc EXCEPT ![p].pc = "gd_db"]
    /\ UNCHANGED <<order, cache, orderLock, tasks, started, wins, payVars, shopVars, grantVars>>

GetDetailDb(p) ==
    /\ proc[p].pc = "gd_db"
    /\ LET row == ReadOrder(p, proc[p].oid) IN
       IF ~row.exists \/ (ChecksOwner(p) /\ row.user_id # proc[p].uid)
       THEN proc' = [proc EXCEPT ![p].st = "raise", ![p].pc = proc[p].ret]
       ELSE proc' = [proc EXCEPT ![p].st = row.status, ![p].pc = "gd_set"]
    /\ UNCHANGED <<order, cache, orderLock, tasks, started, wins, payVars, shopVars, grantVars>>

GetDetailSet(p) ==
    /\ proc[p].pc = "gd_set"
    /\ cache' = [cache EXCEPT ![proc[p].oid] = proc[p].st]
    /\ proc' = [proc EXCEPT ![p].pc = proc[p].ret]
    /\ UNCHANGED <<order, orderLock, tasks, started, wins, payVars, shopVars, grantVars>>

\* GET /order/detail answers
GetDetailDone(p) ==
    /\ proc[p].pc = "gd_done"
    /\ proc' = [proc EXCEPT ![p].pc = "done",
                            ![p].res = IF proc[p].st = "raise" THEN "raise" ELSE proc[p].st]
    /\ UNCHANGED <<order, cache, orderLock, tasks, started, wins, payVars, shopVars, grantVars>>

(* ---------------------- OrderService.mark_order_as_paid ----------------- *)
\* a failed get_order_detail and a status other than PENDING both return False
MarkPaidCheck(p) ==
    /\ proc[p].pc = "mp_check"
    /\ proc' = [proc EXCEPT
                  ![p].res = IF proc[p].st = PENDING THEN "none" ELSE "false",
                  ![p].pc = IF proc[p].st = PENDING THEN "mp_write" ELSE "unlock"]
    /\ UNCHANGED <<order, cache, orderLock, tasks, started, wins, payVars, shopVars, grantVars>>

\* update_by_id(status = PAID, pay_time) and the delete of the order-detail cache entry
MarkPaidWrite(p) ==
    /\ proc[p].pc = "mp_write"
    /\ ~RowLockedByOther(p, proc[p].oid)
    /\ proc' = [proc EXCEPT ![p].txo = StagePaid(proc[p].t), ![p].res = "true",
                            ![p].pc = "unlock"]
    /\ cache' = [cache EXCEPT ![proc[p].oid] = NoCache]
    /\ UNCHANGED <<order, orderLock, tasks, started, wins, payVars, shopVars, grantVars>>

(* ------------------ @atomic(): commit or rollback on exit --------------- *)
\* the order update written through, whatever becomes of the transaction
ApplyOrder_autocommit(p, commit) ==
    IF proc[p].txo.w /\ order[proc[p].oid].exists
    THEN [order EXCEPT ![proc[p].oid].status = proc[p].txo.status,
                       ![proc[p].oid].pay_time =
                            IF proc[p].txo.set_pt THEN proc[p].txo.pay_time ELSE @]
    ELSE order

ApplyOrder(p, commit) ==
    IF proc[p].txo.w /\ commit /\ order[proc[p].oid].exists
    THEN [order EXCEPT ![proc[p].oid].status = proc[p].txo.status,
                       ![proc[p].oid].pay_time =
                            IF proc[p].txo.set_pt THEN proc[p].txo.pay_time ELSE @]
    ELSE order

\* the call returns to its caller: count a True
Won(p) ==
    IF proc[p].res = "true"
    THEN [wins EXCEPT ![proc[p].oid][proc[p].op] = @ + 1]
    ELSE wins

Commit(p) ==
    /\ proc[p].pc = "commit"
    /\ order' = ApplyOrder(p, proc[p].res # "raise")
    /\ proc' = [proc EXCEPT ![p].pc = "done", ![p].txo = NoWrite]
    /\ wins' = Won(p)
    /\ UNCHANGED <<cache, orderLock, tasks, started, payVars, shopVars, grantVars>>

\* the handler has answered; its worker takes the next request
Finish(p) ==
    /\ proc[p].pc = "done"
    /\ proc' = [proc EXCEPT ![p] = Idle]
    /\ UNCHANGED <<order, cache, orderLock, tasks, started, wins, payVars, shopVars, grantVars>>

(* ------------- WechatPayUtils: verification of a notification ----------- *)
AssocValues == {"", "transaction", "refund"}

\* the envelope of a notification as the gateway (or an attacker) sends it:
\*   utf8   the body decodes as UTF-8
\*   sig    the Wechatpay-Signature header: "valid", "invalid" or "malformed" (not base64)
\*   json   the body parses as JSON;  event  its event_type ("" when absent)
\*   res    the resource object is present;  nonce  resource.nonce is present
\*   ct     resource.ciphertext: "good", "tampered", "short" (< 16 bytes) or "missing"
\*   ad, ot resource.associated_data and resource.original_type
\*   aad    the associated data the sender encrypted with;  key  it used this merchant's key
GoodEnvelope(ev, ad, ot, aad) ==
    [utf8 |-> TRUE, sig |-> "valid", json |-> TRUE, event |-> ev, res |-> TRUE, nonce |-> TRUE,
     ct |-> "good", ad |-> ad, ot |-> ot, aad |-> aad, key |-> TRUE]

EventTypes == {"TRANSACTION.SUCCESS", "TRANSACTION.CLOSED", "REFUND.SUCCESS"}

Envelopes ==
    LET base == GoodEnvelope("TRANSACTION.SUCCESS", "transaction", "transaction", "transaction") IN
    {GoodEnvelope("TRANSACTION.SUCCESS", ad, ot, aad) :
         ad \in {"", "transaction"}, ot \in {"", "transaction"}, aad \in AssocValues}
    \cup {GoodEnvelope(ev, "transaction", "transaction", "transaction") : ev \in EventTypes \cup {""}}
    \cup {[e EXCEPT !.sig = s] : s \in {"invalid", "malformed"},
                                 e \in {base, [base EXCEPT !.ct = "tampered"]}}
    \cup {[base EXCEPT !.json = FALSE], [base EXCEPT !.res = FALSE], [base EXCEPT !.nonce = FALSE],
          [base EXCEPT !.key = FALSE], [base EXCEPT !.utf8 = FALSE, !.sig = "invalid"]}
    \cup {[base EXCEPT !.ct = c] : c \in {"tampered", "short", "missing"}}

\* True only when the RSA-SHA256 check passes: a mismatch and any exception give False
verify_callback_signature(env) == env.sig = "valid"

\* AES-256-GCM: raises unless key, nonce, associated data and tag all fit
decrypt_callback_resource(env, associated_data) ==
    env.key /\ env.ct = "good" /\ associated_data = env.aad

\* the associated_data candidates wechat_pay_callback tries, in order
associated_data_candidates(env) ==
    LET c1 == IF env.ad # "" THEN <<env.ad>> ELSE <<>>
        c2 == IF env.ad = "" /\ env.ot # "" THEN Append(c1, env.ot) ELSE c1
        c3 == IF c2 = <<>> THEN <<"transaction">> ELSE c2
    IN  IF \E i \in 1..Len(c3) : c3[i] = "" THEN c3 ELSE Append(c3, "")

\* a Response of wechat_pay_callback: status code and what its content says
Response(status, content) == [status |-> status, content |-> content]

\* wechat_pay_callback up to the dispatch: the Response it rejects with, or status "ok".
\* body_bytes.decode('utf-8') runs first and its error reaches the outer except clause.
Callback(env) ==
    LET cands == associated_data_candidates(env) IN
    CASE ~env.utf8 -> Response("500", "error")
      [] ~verify_callback_signature(env) -> Response("400", "sign")
      [] ~env.json -> Response("400", "json")
      [] env.event = "" \/ ~env.res -> Response("400", "field")
      [] env.ct = "missing" \/ ~env.nonce -> Response("400", "resource")
      [] \A i \in 1..Len(cands) : ~decrypt_callback_resource(env, cands[i]) ->
             Response("400", "decrypt")
      [] OTHER -> Response("ok", "none")

Answer(p, r) == [proc EXCEPT ![p].pc = "done", ![p].res = r]

\* POST /payment/wechat/notify: signature check, parsing and decryption
Receive(p, env) ==
    /\ CanStart(p)
    /\ started' = started + 1
    /\ proc' = [proc EXCEPT ![p] =
          IF Callback(env).status = "ok"
          THEN [Idle EXCEPT !.op = "hook", !.pc = "wh_dispatch", !.ev = env.event]
          ELSE [Idle EXCEPT !.op = "hook", !.pc = "done", !.res = Callback(env).status,
                            !.msg = Callback(env).content]]
    /\ UNCHANGED <<order, cache, orderLock, tasks, wins, payVars, shopVars, grantVars>>

\* every event type that is not a success handled as a closure
Route_closed(ev) == IF ev = "TRANSACTION.SUCCESS" THEN "success" ELSE "closed"

\* the branch of wechat_pay_callback an event type takes
Route(ev) ==
    CASE ev = "TRANSACTION.SUCCESS" -> "success"
      [] ev = "TRANSACTION.CLOSED" -> "closed"
      [] OTHER -> "ack"

\* the decrypted resource names out_trade_no (the order o it belongs to, 0 when absent),
\* transaction_id (0 when absent) and success_time; dispatch on the event type
Dispatch(p, o, x, t) ==
    /\ proc[p].pc = "wh_dispatch"
    /\ (o = 0 \/ proc[p].ev \notin {"TRANSACTION.SUCCESS", "TRANSACTION.CLOSED"}) => (x = 0 /\ t = 1)
    /\ proc[p].ev \notin {"TRANSACTION.SUCCESS", "TRANSACTION.CLOSED"} => o = 0
    /\ proc[p].ev = "TRANSACTION.CLOSED" => t = 1
    /\ proc' =
         CASE Route(proc[p].ev) = "success" ->
                  IF o = 0 \/ x = 0 THEN Answer(p, "500")
                  ELSE [proc EXCEPT ![p].pc = "ps_lock", ![p].oid = o, ![p].txid = x, ![p].t = t,
                                    ![p].pre = (order[o].exists /\ order[o].status = PENDING
                                                /\ pay[o].exists /\ pay[o].trade_state = NOTPAY)]
           [] Route(proc[p].ev) = "closed" ->
                  IF o = 0 THEN Answer(p, "500")
                  ELSE [proc EXCEPT ![p].pc = "pc_lock", ![p].oid = o, ![p].txid = x]
           [] OTHER -> Answer(p, "200")
    /\ UNCHANGED <<order, cache, orderLock, tasks, started, wins, payVars, shopVars, grantVars>>

(* ------------------------- handle_payment_success ----------------------- *)
\* a SUCCESS payment record carrying this transaction id is committed
ExistingSuccess(x) ==
    \E o \in Orders : pay[o].exists /\ pay[o].transaction_id = x /\ pay[o].trade_state = SUCCESS

\* a lock that is handed out while it is held
CbLockFree_always(x) == TRUE

\* RedisLock.__aenter__ gets the lock only while nobody holds it
CbLockFree(x) == cbLock[x] = 0

AcquireCbLock(p) ==
    /\ proc[p].pc = "ps_lock"
    /\ CbLockFree(proc[p].txid)
    /\ cbLock' = [cbLock EXCEPT ![proc[p].txid] = p]
    /\ proc' = [proc EXCEPT ![p].pc = "ps_check"]
    /\ UNCHANGED <<order, pay, fulfil, cache, prepay, orderLock, closedLock, prepayLock,
                   tasks, sessions, started, wins, shopVars, grantVars>>

\* LockError after the bounded wait; matches: the text of the lock library's error holds
\* "Lock timeout" or "Failed to acquire", the only case in which the record is looked at again
CbLockTimeout(p, matches) ==
    /\ proc[p].pc = "ps_lock"
    /\ cbLock[proc[p].txid] # 0
    /\ proc' = Answer(p, IF matches /\ ExistingSuccess(proc[p].txid) THEN "200" ELSE "500")
    /\ UNCHANGED <<order, cache, orderLock, tasks, started, wins, payVars, shopVars, grantVars>>

\* the two idempotency checks, by transaction_id and by out_trade_no
PaySuccessCheck(p) ==
    /\ proc[p].pc = "ps_check"
    /\ LET o == proc[p].oid
           x == proc[p].txid IN
       proc' = CASE ExistingSuccess(x) ->
                        [proc EXCEPT ![p].pc = "ps_unlock", ![p].res = "200"]
                 [] pay[o].exists /\ pay[o].trade_state = SUCCESS ->
                        [proc EXCEPT ![p].pc = "ps_unlock",
                                     ![p].res = IF pay[o].transaction_id # 0
                                                   /\ pay[o].transaction_id # x
                                                THEN "500" ELSE "200"]
                 [] OTHER -> [proc EXCEPT ![p].pc = "ps_pay"]
    /\ UNCHANGED <<order, cache, orderLock, tasks, started, wins, payVars, shopVars, grantVars>>

\* in_transaction(): WechatPayment.get_or_none(out_trade_no); without a record order_id
\* is unbound and the handler fails.  The first read fixes the transaction's snapshot.
PaySuccessRead(p) ==
    /\ proc[p].pc = "ps_pay"
    /\ LET o == proc[p].oid IN
       proc' = IF pay[o].exists
               THEN [proc EXCEPT ![p].pc = "ps_save", ![p].rec = pay[o],
                                 ![p].snap = [taken |-> TRUE, row |-> order[o]]]
               ELSE [proc EXCEPT ![p].pc = "ps_end", ![p].ok = FALSE]
    /\ UNCHANGED <<order, cache, orderLock, tasks, started, wins, payVars, shopVars, grantVars>>

\* the unique index on transaction_id
TxIdTaken(o, x) ==
    x # 0 /\ \E o2 \in Orders \ {o} : pay[o2].exists /\ pay[o2].transaction_id = x

\* wechat_payment.save() with trade_state = SUCCESS and the transaction id
PaySuccessSave(p) ==
    /\ proc[p].pc = "ps_save"
    /\ ~PayRowLockedByOther(p, proc[p].oid)
    /\ proc' = IF TxIdTaken(proc[p].oid, proc[p].txid)
               THEN [proc EXCEPT ![p].pc = "ps_end", ![p].ok = FALSE]
               ELSE [proc EXCEPT ![p].pc = "gd_cache", ![p].ret = "ps_detail",
                                 ![p].txp = [w |-> TRUE, trade_state |-> SUCCESS,
                                             transaction_id |-> proc[p].txid]]
    /\ UNCHANGED <<order, cache, orderLock, tasks, started, wins, payVars, shopVars, grantVars>>

(* ------------------ PaymentSuccessService.on_payment_success ------------ *)
\* after get_order_detail: an exception is caught and becomes False; the "already paid"
\* test compares payment_type with OrderStatus.PAID; otherwise mark_order_as_paid is called
OnPaymentSuccess(p) ==
    /\ proc[p].pc = "ps_detail"
    /\ proc' = CASE proc[p].st = "raise" -> [proc EXCEPT ![p].pc = "ps_end", ![p].ok = FALSE]
                 [] order[proc[p].oid].payment_type = PAID ->
                        [proc EXCEPT ![p].pc = "ps_end", ![p].ok = TRUE]
                 [] OTHER -> [proc EXCEPT ![p].pc = "lock"]
    /\ UNCHANGED <<order, cache, orderLock, tasks, started, wins, payVars, shopVars, grantVars>>

\* what a handler can do with the order's single item: "ok" its effect is written,
\* "skip" product, SKU or plan is not found and it returns, "raise" it fails; the design
\* handler fails whenever it gets as far as bind_license (see DesignHandle)
HandlerOutcomes(it) ==
    CASE it = "physical" -> {"ok"}
      [] it = "vip" -> {"ok", "skip", "raise"}
      [] it = "design" -> {"skip", "raise"}

\* the exception swallowed and the result of mark_order_as_paid returned
HandlerResult_swallow(success, outcome) == success

\* an exception of a handler is caught by on_payment_success, which then returns False
HandlerResult(success, outcome) == success /\ outcome # "raise"

\* the plan of a VIP order item, in days
ItemPlanDays == 30

RECURSIVE SumFulfil(_)
SumFulfil(S) ==
    IF S = {} THEN 0
    ELSE LET o == CHOOSE x \in S : TRUE IN fulfil[o] + SumFulfil(S \ {o})

\* total_days of the committed UserVIP row of user u: every committed VIP fulfilment
\* added the plan of its order
VipDaysStored(u) ==
    ItemPlanDays * SumFulfil({o \in Orders : order[o].exists /\ order[o].user_id = u
                                              /\ order[o].item_type = "vip"})

\* refresh_user_login_cache: the user's rows are read as the caller's transaction sees
\* them and written to Redis at once; days is the total_days of the UserVIP row read
refresh_user_login_cache(u, days) == [login EXCEPT ![u] = days]

\* the loop over order_detail.items, run whatever mark_order_as_paid returned
HandleItems(p, outcome) ==
    /\ proc[p].pc = "ps_handle"
    /\ outcome \in HandlerOutcomes(order[proc[p].oid].item_type)
    /\ proc' = [proc EXCEPT ![p].pc = "ps_end",
                            ![p].hc = @ + 1,
                            ![p].hr = (outcome = "raise"),
                            ![p].ok = HandlerResult(@, outcome),
                            ![p].txf = IF outcome = "ok"
                                          /\ order[proc[p].oid].item_type # "physical"
                                       THEN 1 ELSE 0]
    /\ login' = IF outcome = "ok" /\ order[proc[p].oid].item_type = "vip"
                THEN LET u == order[proc[p].oid].user_id IN
                     refresh_user_login_cache(u, VipDaysStored(u) + ItemPlanDays)
                ELSE login
    /\ UNCHANGED <<order, cache, orderLock, tasks, started, wins, payVars, shopVars,
                   vip, license, design, vipRows>>

\* on_payment_success returned: True commits the transaction, False raises ValueError
\* and the transaction rolls back
PaySuccessEnd(p) ==
    /\ proc[p].pc = "ps_end"
    /\ LET o == proc[p].oid IN
       /\ order' = ApplyOrder(p, proc[p].ok)
       /\ pay' = IF proc[p].ok /\ proc[p].txp.w
                 THEN [pay EXCEPT ![o].trade_state = proc[p].txp.trade_state,
                                  ![o].transaction_id = proc[p].txp.transaction_id]
                 ELSE pay
       /\ fulfil' = IF proc[p].ok THEN [fulfil EXCEPT ![o] = @ + proc[p].txf] ELSE fulfil
    /\ proc' = [proc EXCEPT ![p].pc = "ps_unlock",
                            ![p].res = IF proc[p].ok THEN "200" ELSE "500",
                            ![p].txo = NoWrite, ![p].txp = NoPayWrite, ![p].txf = 0,
                            ![p].snap = NoSnap, ![p].rec = NoPay]
    /\ UNCHANGED <<cache, prepay, orderLock, cbLock, closedLock, prepayLock, tasks, sessions,
                   started, wins, shopVars, grantVars>>

ReleaseCbLock(p) ==
    /\ proc[p].pc = "ps_unlock"
    /\ cbLock' = [cbLock EXCEPT ![proc[p].txid] = 0]
    /\ proc' = [proc EXCEPT ![p].pc = "done"]
    /\ UNCHANGED <<order, pay, fulfil, cache, prepay, orderLock, closedLock, prepayLock,
                   tasks, sessions, started, wins, shopVars, grantVars>>

(* -------------------------- handle_payment_closed ----------------------- *)
AcquireClosedLock(p) ==
    /\ proc[p].pc = "pc_lock"
    /\ closedLock[proc[p].oid] = 0
    /\ closedLock' = [closedLock EXCEPT ![proc[p].oid] = p]
    /\ proc' = [proc EXCEPT ![p].pc = "pc_read"]
    /\ UNCHANGED <<order, pay, fulfil, cache, prepay, orderLock, cbLock, prepayLock,
                   tasks, sessions, started, wins, shopVars, grantVars>>

ClosedLockTimeout(p, matches) ==
    /\ proc[p].pc = "pc_lock"
    /\ closedLock[proc[p].oid] # 0
    /\ proc' = Answer(p, IF matches /\ pay[proc[p].oid].exists
                            /\ pay[proc[p].oid].trade_state = CLOSED
                         THEN "200" ELSE "500")
    /\ UNCHANGED <<order, cache, orderLock, tasks, started, wins, payVars, shopVars, grantVars>>

PayClosedRead(p) ==
    /\ proc[p].pc = "pc_read"
    /\ LET r == pay[proc[p].oid] IN
       proc' = IF ~r.exists \/ r.trade_state \in {CLOSED, SUCCESS}
               THEN [proc EXCEPT ![p].pc = "pc_unlock", ![p].res = "200"]
               ELSE [proc EXCEPT ![p].pc = "pc_save", ![p].rec = r]
    /\ UNCHANGED <<order, cache, orderLock, tasks, started, wins, payVars, shopVars, grantVars>>

\* wechat_payment.save() writes every column of the instance that was read
PayClosedSave(p) ==
    /\ proc[p].pc = "pc_save"
    /\ ~PayRowLockedByOther(p, proc[p].oid)
    /\ LET o == proc[p].oid
           x == IF proc[p].txid # 0 THEN proc[p].txid ELSE proc[p].rec.transaction_id IN
       IF TxIdTaken(o, x)
       THEN /\ pay' = pay
            /\ proc' = [proc EXCEPT ![p].pc = "pc_unlock", ![p].res = "500", ![p].rec = NoPay]
       ELSE /\ pay' = [pay EXCEPT ![o].trade_state = CLOSED, ![o].transaction_id = x]
            /\ proc' = [proc EXCEPT ![p].pc = "pc_unlock", ![p].res = "200", ![p].rec = NoPay]
    /\ UNCHANGED <<order, fulfil, cache, prepay, orderLock, cbLock, closedLock, prepayLock,
                   tasks, sessions, started, wins, shopVars, grantVars>>

ReleaseClosedLock(p) ==
    /\ proc[p].pc = "pc_unlock"
    /\ closedLock' = [closedLock EXCEPT ![proc[p].oid] = 0]
    /\ proc' = [proc EXCEPT ![p].pc = "done"]
    /\ UNCHANGED <<order, pay, fulfil, cache, prepay, orderLock, cbLock, prepayLock,
                   tasks, sessions, started, wins, shopVars, grantVars>>

(* -------------------------- create_wechat_payment ----------------------- *)
StartCreatePayment(p, o, u) ==
    /\ CanStart(p)
    /\ started' = started + 1
    /\ proc' = [proc EXCEPT ![p] = [Idle EXCEPT !.op = "pay", !.pc = "cp_lock", !.oid = o,
                                                !.uid = u]]
    /\ UNCHANGED <<order, cache, orderLock, tasks, wins, payVars, shopVars, grantVars>>

AcquirePrepayLock(p) ==
    /\ proc[p].pc = "cp_lock"
    /\ prepayLock[proc[p].uid][proc[p].oid] = 0
    /\ prepayLock' = [prepayLock EXCEPT ![proc[p].uid][proc[p].oid] = p]
    /\ proc' = [proc EXCEPT ![p].pc = "cp_cache"]
    /\ UNCHANGED <<order, pay, fulfil, cache, prepay, orderLock, cbLock, closedLock,
                   tasks, sessions, started, wins, shopVars, grantVars>>

PrepayLockTimeout(p) ==
    /\ proc[p].pc = "cp_lock"
    /\ prepayLock[proc[p].uid][proc[p].oid] # 0
    /\ proc' = Answer(p, "error")
    /\ UNCHANGED <<order, cache, orderLock, tasks, started, wins, payVars, shopVars, grantVars>>

\* the cached payment parameters are returned as they are
CreatePaymentCache(p) ==
    /\ proc[p].pc = "cp_cache"
    /\ proc' = IF prepay[proc[p].uid][proc[p].oid] # 0
               THEN [proc EXCEPT ![p].pc = "cp_unlock", ![p].res = "params",
                                 ![p].hc = prepay[proc[p].uid][proc[p].oid]]
               ELSE [proc EXCEPT ![p].pc = "gd_cache", ![p].ret = "cp_check"]
    /\ UNCHANGED <<order, cache, orderLock, tasks, started, wins, payVars, shopVars, grantVars>>

\* order status and ownership
CreatePaymentCheck(p) ==
    /\ proc[p].pc = "cp_check"
    /\ proc' = IF proc[p].st = PENDING /\ order[proc[p].oid].user_id = proc[p].uid
               THEN [proc EXCEPT ![p].pc = "cp_gateway"]
               ELSE [proc EXCEPT ![p].pc = "cp_unlock", ![p].res = "error"]
    /\ UNCHANGED <<order, cache, orderLock, tasks, started, wins, payVars, shopVars, grantVars>>

\* WechatPayUtils.create_jsapi_order_with_expire: a new prepay session, or a failure
CreatePaymentGateway(p, accepted) ==
    /\ proc[p].pc = "cp_gateway"
    /\ IF accepted
       THEN /\ sessions' = [sessions EXCEPT ![proc[p].oid] = @ + 1]
            /\ proc' = [proc EXCEPT ![p].pc = "cp_read", ![p].hc = sessions[proc[p].oid] + 1]
       ELSE /\ sessions' = sessions
            /\ proc' = [proc EXCEPT ![p].pc = "cp_unlock", ![p].res = "error"]
    /\ UNCHANGED <<order, pay, fulfil, cache, prepay, orderLock, cbLock, closedLock, prepayLock,
                   tasks, started, wins, shopVars, grantVars>>

CreatePaymentRead(p) ==
    /\ proc[p].pc = "cp_read"
    /\ proc' = [proc EXCEPT ![p].pc = "cp_save", ![p].rec = pay[proc[p].oid]]
    /\ UNCHANGED <<order, cache, orderLock, tasks, started, wins, payVars, shopVars, grantVars>>

\* an existing record is saved back, reset to NOTPAY unless the instance read was SUCCESS;
\* otherwise a NOTPAY record is created (out_trade_no is unique)
CreatePaymentSave(p) ==
    /\ proc[p].pc = "cp_save"
    /\ ~PayRowLockedByOther(p, proc[p].oid)
    /\ LET o == proc[p].oid
           r == proc[p].rec IN
       CASE r.exists ->
              /\ pay' = [pay EXCEPT ![o].trade_state =
                                        IF r.trade_state = SUCCESS THEN SUCCESS ELSE NOTPAY,
                                    ![o].transaction_id = r.transaction_id]
              /\ proc' = [proc EXCEPT ![p].pc = "cp_set", ![p].rec = NoPay]
         [] ~r.exists /\ pay[o].exists ->
              /\ pay' = pay
              /\ proc' = [proc EXCEPT ![p].pc = "cp_unlock", ![p].res = "error", ![p].rec = NoPay]
         [] OTHER ->
              /\ pay' = [pay EXCEPT ![o] = [exists |-> TRUE, trade_state |-> NOTPAY,
                                            transaction_id |-> 0]]
              /\ proc' = [proc EXCEPT ![p].pc = "cp_set", ![p].rec = NoPay]
    /\ UNCHANGED <<order, fulfil, cache, prepay, orderLock, cbLock, closedLock, prepayLock,
                   tasks, sessions, started, wins, shopVars, grantVars>>

\* the payment parameters are cached for 30 minutes and returned
CreatePaymentSet(p) ==
    /\ proc[p].pc = "cp_set"
    /\ prepay' = [prepay EXCEPT ![proc[p].uid][proc[p].oid] = proc[p].hc]
    /\ proc' = [proc EXCEPT ![p].pc = "cp_unlock", ![p].res = "params"]
    /\ UNCHANGED <<order, pay, fulfil, cache, orderLock, cbLock, closedLock, prepayLock,
                   tasks, sessions, started, wins, shopVars, grantVars>>

\* unlock deletes the key only while it still carries this holder's identifier
ReleasePrepayLock(p) ==
    /\ proc[p].pc = "cp_unlock"
    /\ prepayLock' = [prepayLock EXCEPT ![proc[p].uid][proc[p].oid] = IF @ = p THEN 0 ELSE @]
    /\ proc' = [proc EXCEPT ![p].pc = "done"]
    /\ UNCHANGED <<order, pay, fulfil, cache, prepay, orderLock, cbLock, closedLock,
                   tasks, sessions, started, wins, shopVars, grantVars>>

\* the 30-minute TTL of the cached payment parameters runs out
PrepayExpire(u, o) ==
    /\ prepay[u][o] # 0
    /\ prepay' = [prepay EXCEPT ![u][o] = 0]
    /\ UNCHANGED <<order, pay, fulfil, cache, orderLock, cbLock, closedLock, prepayLock,
                   tasks, sessions, proc, started, wins, shopVars, grantVars>>

\* the 10-second TTL of lock:wx_pay:prepay_id:<user>:<order> runs out while its holder
\* is still inside the block (the gateway call alone may take up to 30 seconds)
PrepayLockExpire(u, o) ==
    /\ prepayLock[u][o] # 0
    /\ prepayLock' = [prepayLock EXCEPT ![u][o] = 0]
    /\ UNCHANGED <<order, pay, fulfil, cache, prepay, orderLock, cbLock, closedLock,
                   tasks, sessions, proc, started, wins, shopVars, grantVars>>

(* ------------------ OrderService.create_order, step by step ------------- *)
\* the values the time-plus-random generators of the two order numbers can return
Nos == {1, 2}

\* product_service.get_by_id_with_skus from the store: the product with its enabled SKUs
ProductWithSkus(pr) ==
    [found |-> TRUE, product |-> product[pr],
     skus |-> [s \in Skus |-> IF sku[s].exists /\ sku[s].product_id = pr /\ sku[s].is_enabled
                              THEN sku[s] ELSE NoSku]]

StartCreateOrder(p, u, pr, s) ==
    /\ CanStart(p)
    /\ started' = started + 1
    /\ proc' = [proc EXCEPT ![p] = [Idle EXCEPT !.op = "create", !.pc = "co_lock", !.uid = u,
                                                !.pid = pr, !.sid = s]]
    /\ UNCHANGED <<order, cache, orderLock, tasks, wins, payVars, shopVars, grantVars>>

AcquireCreateLock(p) ==
    /\ proc[p].pc = "co_lock"
    /\ LET k == <<proc[p].uid, proc[p].pid, proc[p].sid>> IN
       /\ createLock[k] = 0
       /\ createLock' = [createLock EXCEPT ![k] = p]
    /\ proc' = [proc EXCEPT ![p].pc = "co_pcache"]
    /\ UNCHANGED <<order, cache, orderLock, tasks, started, wins, payVars, product, sku,
                   productCache, detail, items, snapshots, grantVars>>

\* the lock is not obtained within 5 seconds: LockError leaves create_order
CreateLockTimeout(p) ==
    /\ proc[p].pc = "co_lock"
    /\ createLock[<<proc[p].uid, proc[p].pid, proc[p].sid>>] # 0
    /\ proc' = [proc EXCEPT ![p].pc = "co_commit", ![p].res = "raise"]
    /\ UNCHANGED <<order, cache, orderLock, tasks, started, wins, payVars, shopVars, grantVars>>

GetProductCache(p) ==
    /\ proc[p].pc = "co_pcache"
    /\ proc' = IF productCache[proc[p].pid].found
               THEN [proc EXCEPT ![p].info = productCache[proc[p].pid], ![p].pc = "co_check"]
               ELSE [proc EXCEPT ![p].pc = "co_pdb"]
    /\ UNCHANGED <<order, cache, orderLock, tasks, started, wins, payVars, shopVars, grantVars>>

\* an unknown product is answered with None and is not cached
GetProductDb(p) ==
    /\ proc[p].pc = "co_pdb"
    /\ proc' = IF product[proc[p].pid].exists
               THEN [proc EXCEPT ![p].info = ProductWithSkus(proc[p].pid), ![p].pc = "co_pset"]
               ELSE [proc EXCEPT ![p].info = NoInfo, ![p].pc = "co_check"]
    /\ UNCHANGED <<order, cache, orderLock, tasks, started, wins, payVars, shopVars, grantVars>>

GetProductSet(p) ==
    /\ proc[p].pc = "co_pset"
    /\ productCache' = [productCache EXCEPT ![proc[p].pid] = proc[p].info]
    /\ proc' = [proc EXCEPT ![p].pc = "co_check"]
    /\ UNCHANGED <<order, cache, orderLock, tasks, started, wins, payVars, product, sku,
                   detail, items, snapshots, createLock, grantVars>>

\* the 30-minute TTL of the cached product runs out
ProductCacheExpire(pr) ==
    /\ productCache[pr].found
    /\ productCache' = [productCache EXCEPT ![pr] = NoInfo]
    /\ UNCHANGED <<order, cache, orderLock, tasks, proc, started, wins, payVars, product, sku,
                   detail, items, snapshots, createLock, grantVars>>

\* the product exists, the SKU is one of its SKUs, is enabled and has stock other than 0
Sellable(info, s) ==
    /\ info.found
    /\ info.skus[s].exists
    /\ info.skus[s].is_enabled
    /\ info.skus[s].stock # 0

CreateOrderCheck(p) ==
    /\ proc[p].pc = "co_check"
    /\ proc' = IF Sellable(proc[p].info, proc[p].sid)
               THEN [proc EXCEPT ![p].pc = "co_order"]
               ELSE [proc EXCEPT ![p].pc = "co_unlock", ![p].res = "raise"]
    /\ UNCHANGED <<order, cache, orderLock, tasks, started, wins, payVars, shopVars, grantVars>>

\* an order number that another, still open, transaction has inserted: the insert waits
NoHeldByOther(p, mno, sno) ==
    \E q \in Procs \ {p} :
        /\ proc[q].new.w
        /\ proc[q].new.detail.merchant_order_no = mno \/ proc[q].new.detail.serial_no = sno

\* no unique index
NoTaken_never(mno, sno) == FALSE

\* the unique indexes of merchant_order_no and serial_no
NoTaken(mno, sno) ==
    \E o \in DOMAIN order :
        order[o].exists /\ (detail[o].merchant_order_no = mno \/ detail[o].serial_no = sno)

\* the id the new row gets
FreeId(p, o) ==
    /\ ~order[o].exists
    /\ \A q \in Procs \ {p} : proc[q].new.id # o
    /\ \A o2 \in DOMAIN order :
         o2 < o => (order[o2].exists \/ \E q \in Procs \ {p} : proc[q].new.id = o2)

ItemTypeOf(product_type) ==
    CASE product_type = "DESIGN" -> "design"
      [] product_type = "VIP" -> "vip"
      [] OTHER -> "physical"

\* Order.create, now being the clock's value, with the SKU price as total amount and
\* now + expire_minutes as expiry
CreateOrderRow(p, now, mno, sno) ==
    /\ proc[p].pc = "co_order"
    /\ ~NoHeldByOther(p, mno, sno)
    /\ IF NoTaken(mno, sno)
       THEN proc' = [proc EXCEPT ![p].pc = "co_unlock", ![p].res = "raise"]
       ELSE \E o \in DOMAIN order :
              /\ FreeId(p, o)
              /\ proc' = [proc EXCEPT
                            ![p].pc = "co_item",
                            ![p].oid = o,
                            ![p].t = now,
                            ![p].new = [NoNew EXCEPT
                                !.w = TRUE,
                                !.id = o,
                                !.detail = [total_amount |-> proc[p].info.skus[proc[p].sid].price,
                                            expire_time |-> now + expire_minutes,
                                            merchant_order_no |-> mno,
                                            serial_no |-> sno]]]
    /\ UNCHANGED <<order, cache, orderLock, tasks, started, wins, payVars, shopVars, grantVars>>

\* OrderItem.create: one item, quantity 1, priced with the SKU price; the write may fail
CreateOrderItem(p, fails) ==
    /\ proc[p].pc = "co_item"
    /\ proc' = IF fails
               THEN [proc EXCEPT ![p].pc = "co_unlock", ![p].res = "raise"]
               ELSE LET unit_price == proc[p].info.skus[proc[p].sid].price
                        quantity == 1 IN
                    [proc EXCEPT
                       ![p].pc = "co_snap",
                       ![p].new.item =
                           [w |-> TRUE,
                            item_type |-> ItemTypeOf(proc[p].info.product.product_type),
                            product_id |-> proc[p].pid, sku_id |-> proc[p].sid,
                            quantity |-> quantity, unit_price |-> unit_price,
                            total_price |-> unit_price * quantity]]
    /\ UNCHANGED <<order, cache, orderLock, tasks, started, wins, payVars, shopVars, grantVars>>

\* ProductSnapshot.create; the write may fail
CreateSnapshot(p, fails) ==
    /\ proc[p].pc = "co_snap"
    /\ proc' = IF fails
               THEN [proc EXCEPT ![p].pc = "co_unlock", ![p].res = "raise"]
               ELSE [proc EXCEPT ![p].pc = "co_task", ![p].new.snap = TRUE]
    /\ UNCHANGED <<order, cache, orderLock, tasks, started, wins, payVars, shopVars, grantVars>>

\* close_expired_order_task.apply_async: the broker takes the task at once
ScheduleClose(p) ==
    /\ proc[p].pc = "co_task"
    /\ tasks' = [tasks EXCEPT ![proc[p].oid] = MaxTasks]
    /\ proc' = [proc EXCEPT ![p].pc = "co_cache"]
    /\ UNCHANGED <<order, cache, orderLock, started, wins, payVars, shopVars, grantVars>>

\* _cache_order_detail_after_create reads the new row in the transaction and caches it
CacheAfterCreate(p) ==
    /\ proc[p].pc = "co_cache"
    /\ cache' = [cache EXCEPT ![proc[p].oid] = PENDING]
    /\ proc' = [proc EXCEPT ![p].pc = "co_unlock", ![p].res = "ok"]
    /\ UNCHANGED <<order, orderLock, tasks, started, wins, payVars, shopVars, grantVars>>

ReleaseCreateLock(p) ==
    /\ proc[p].pc = "co_unlock"
    /\ LET k == <<proc[p].uid, proc[p].pid, proc[p].sid>> IN
       createLock' = [createLock EXCEPT ![k] = IF @ = p THEN 0 ELSE @]
    /\ proc' = [proc EXCEPT ![p].pc = "co_commit"]
    /\ UNCHANGED <<order, cache, orderLock, tasks, started, wins, payVars, product, sku,
                   productCache, detail, items, snapshots, grantVars>>

\* every insert is committed on its own
Committed_each(p) == TRUE

\* @atomic(): the transaction is committed when create_order returns, rolled back when it
\* raises
Committed(p) == proc[p].res = "ok"

\* the end of the transaction: the inserts made are stored together, or dropped together
CreateOrderCommit(p) ==
    /\ proc[p].pc = "co_commit"
    /\ LET n == proc[p].new IN
       /\ order' = IF Committed(p) /\ n.w
                   THEN [order EXCEPT ![n.id] =
                           [exists |-> TRUE, user_id |-> proc[p].uid, status |-> PENDING,
                            pay_time |-> 0, payment_type |-> WECHAT,
                            item_type |-> n.item.item_type]]
                   ELSE order
       /\ detail' = IF Committed(p) /\ n.w THEN [detail EXCEPT ![n.id] = n.detail] ELSE detail
       /\ items' = IF Committed(p) /\ n.item.w
                   THEN [items EXCEPT ![n.id] = <<[n.item EXCEPT !.w = FALSE]>>]
                   ELSE items
       /\ snapshots' = IF Committed(p) /\ n.snap
                       THEN [snapshots EXCEPT ![proc[p].pid] = @ + 1]
                       ELSE snapshots
    /\ proc' = [proc EXCEPT ![p].pc = "done", ![p].new = NoNew]
    /\ UNCHANGED <<cache, orderLock, tasks, started, wins, payVars, product, sku,
                   productCache, createLock, grantVars>>

(* ---------------------- changes of a SKU by an admin -------------------- *)
\* VipProductAdminService.update_vip_product with a new price: the SKU row is updated; the
\* cached product is dropped only when the request also changes the product row itself
UpdateVipProduct(pr, price, with_product) ==
    /\ product[pr].exists /\ product[pr].product_type = "VIP"
    /\ \E s \in Skus :
         /\ ProductWithSkus(pr).skus[s].exists
         /\ \A s2 \in Skus : s2 < s => ~ProductWithSkus(pr).skus[s2].exists
         /\ sku[s].price # price
         /\ sku' = [sku EXCEPT ![s].price = price]
    /\ productCache' = IF with_product THEN [productCache EXCEPT ![pr] = NoInfo]
                       ELSE productCache
    /\ UNCHANGED <<order, cache, orderLock, tasks, proc, started, wins, payVars, product,
                   detail, items, snapshots, createLock, grantVars>>

\* DesignProductAdminService.update_sku: the price is updated and the cached product dropped
UpdateSku(s, price) ==
    /\ sku[s].exists
    /\ sku[s].price # price
    /\ sku' = [sku EXCEPT ![s].price = price]
    /\ productCache' = [productCache EXCEPT ![sku[s].product_id] = NoInfo]
    /\ UNCHANGED <<order, cache, orderLock, tasks, proc, started, wins, payVars, product,
                   detail, items, snapshots, createLock, grantVars>>

(* ------------------------ VipProductHandler.handle ---------------------- *)
\* the plans on sale, in days, and the values of datetime.now(), in days
PlanDays == {7, 30}
VipNows == {20, 30, 40}

\* the window always restarted from now
VipAfter_restart(member, days, now) ==
    [exists |-> TRUE, start_time |-> now, end_time |-> now + days,
     total_days |-> member.total_days + days]

\* the UserVIP row after the handler: created, extended when its end lies after now,
\* restarted from now otherwise
VipAfter(member, days, now) ==
    IF ~member.exists
    THEN [exists |-> TRUE, start_time |-> now, end_time |-> now + days, total_days |-> days]
    ELSE IF member.end_time > now
         THEN [member EXCEPT !.total_days = @ + days, !.end_time = @ + days]
         ELSE [member EXCEPT !.total_days = @ + days, !.start_time = now,
                             !.end_time = now + days]

\* the handler for a paid VIP item of user u; found: product, SKU and plan were found,
\* otherwise it logs and returns
VipHandle(u, found, days, now) ==
    /\ started < MaxOps
    /\ started' = started + 1
    /\ vip' = [vip EXCEPT ![u] = IF found THEN VipAfter(@, days, now) ELSE @]
    /\ login' = IF found THEN refresh_user_login_cache(u, vip'[u].total_days) ELSE login
    /\ vipRows' = [vipRows EXCEPT ![u] = IF found /\ ~vip[u].exists THEN @ + 1 ELSE @]
    /\ UNCHANGED <<order, cache, orderLock, tasks, proc, wins, payVars, shopVars,
                   license, design>>

\* the same handler step by step, each call inside the transaction of its own
\* handle_payment_success and under the callback lock of its own transaction id; found:
\* product, SKU and plan were found, otherwise it logs and returns
StartVipHandle(p, u, found, days, now) ==
    /\ proc[p].op = "idle"
    /\ started < MaxOps
    /\ started' = started + 1
    /\ proc' = [proc EXCEPT ![p] = [Idle EXCEPT !.op = "vip", !.uid = u, !.t = now,
                                                !.pc = IF found THEN "vh_read" ELSE "done",
                                                !.res = IF found THEN "none" ELSE "ok",
                                                !.days = IF found THEN days ELSE 0]]
    /\ UNCHANGED <<order, cache, orderLock, tasks, wins, payVars, shopVars, grantVars>>

\* another transaction has written the user's row and has not committed
VipRowLockedByOther(p, u) ==
    \E q \in Procs \ {p} : /\ proc[q].op = "vip" /\ proc[q].uid = u
                            /\ proc[q].pc = "vh_commit" /\ ~proc[q].ins

\* get_by_user_id: filter(user_id=...).get_or_none(), a plain read of the committed rows
\* that raises when it meets more than one
VipRead(p) ==
    /\ proc[p].pc = "vh_read"
    /\ LET u == proc[p].uid IN
       proc' = IF vipRows[u] > 1
               THEN [proc EXCEPT ![p].pc = "done", ![p].res = "raise", ![p].days = 0]
               ELSE [proc EXCEPT ![p].pc = "vh_write", ![p].member = vip[u]]
    /\ UNCHANGED <<order, cache, orderLock, tasks, started, wins, payVars, shopVars, grantVars>>

\* the row read is created or changed and saved, an UPDATE waiting for the row lock;
\* refresh_user_login_cache then reads it back inside the transaction
VipWrite(p) ==
    /\ proc[p].pc = "vh_write"
    /\ LET u == proc[p].uid
           row == VipAfter(proc[p].member, proc[p].days, proc[p].t)
       IN /\ proc[p].member.exists => ~VipRowLockedByOther(p, u)
          /\ proc' = [proc EXCEPT ![p].pc = "vh_commit", ![p].member = row,
                                  ![p].ins = ~proc[p].member.exists]
          /\ login' = refresh_user_login_cache(u, row.total_days)
    /\ UNCHANGED <<order, cache, orderLock, tasks, started, wins, payVars, shopVars,
                   vip, license, design, vipRows>>

\* the transaction of handle_payment_success commits: an inserted row is one more row of
\* the user, a saved row replaces every column of the stored one
VipCommit(p) ==
    /\ proc[p].pc = "vh_commit"
    /\ LET u == proc[p].uid IN
       /\ vip' = [vip EXCEPT ![u] = IF proc[p].ins /\ vipRows[u] > 0 THEN @
                                    ELSE proc[p].member]
       /\ vipRows' = [vipRows EXCEPT ![u] = IF proc[p].ins THEN @ + 1 ELSE @]
    /\ proc' = [proc EXCEPT ![p].pc = "done", ![p].res = "ok"]
    /\ UNCHANGED <<order, cache, orderLock, tasks, started, wins, payVars, shopVars,
                   license, design, login>>

VipStep(p) == VipRead(p) \/ VipWrite(p) \/ VipCommit(p)

(* ----------------------- DesignProductHandler.handle -------------------- *)
LicenseType == {"normal", "buyout", "commercial"}
BOUGHT_OUT == "BOUGHT_OUT"

\* Python values handed to bind_license: an int, or a SKU with its attributes
IntObject(n) == [class |-> "int", value |-> n, design_id |-> 0, product_id |-> 0]
SkuObject(d, pr) == [class |-> "SKU", value |-> 0, design_id |-> d, product_id |-> pr]

\* x.design_id and x.product_id exist: on an int the access raises AttributeError
HasAttributes(x) == x.class = "SKU"

NoBinding == [raised |-> FALSE, rows |-> <<>>, bought_out |-> FALSE, design_id |-> 0]

\* UserDesignLicenseService.bind_license(user_id, sku, design_license_plan): the arguments
\* of UserDesignLicense.create read sku.design_id and sku.product_id; a buyout or
\* commercial plan then sets the design BOUGHT_OUT and unpublishes its product
bind_license(user_id, s, license_type) ==
    LET is_buyout == license_type \in {"buyout", "commercial"} IN
    IF ~HasAttributes(s)
    THEN [NoBinding EXCEPT !.raised = TRUE]
    ELSE [raised |-> FALSE,
          rows |-> <<[user_id |-> user_id, design_id |-> s.design_id,
                      license_type |-> license_type, is_buyout |-> is_buyout]>>,
          bought_out |-> is_buyout /\ design[s.design_id].exists,
          design_id |-> s.design_id]

\* the handler for a paid DESIGN item of user u whose SKU carries design d; found: product,
\* SKU and license plan were found, otherwise it logs and returns.  bind_license is called
\* with sku.design_id in the place of its sku parameter; an exception leaves the handler
\* and its @atomic() transaction is rolled back
DesignHandle(u, d, found, license_type) ==
    /\ started < MaxOps
    /\ started' = started + 1
    /\ LET b == IF found THEN bind_license(u, IntObject(d), license_type) ELSE NoBinding IN
       /\ license' = IF b.raised THEN license ELSE license \o b.rows
       /\ design' = IF ~b.raised /\ b.bought_out
                    THEN [design EXCEPT ![b.design_id].state = BOUGHT_OUT]
                    ELSE design
       /\ product' = IF ~b.raised /\ b.bought_out /\ design[b.design_id].product_id # 0
                     THEN [product EXCEPT ![design[b.design_id].product_id].is_published = FALSE]
                     ELSE product
       /\ productCache' = IF ~b.raised /\ b.bought_out /\ design[b.design_id].product_id # 0
                          THEN [productCache EXCEPT ![design[b.design_id].product_id] = NoInfo]
                          ELSE productCache
    /\ UNCHANGED <<order, cache, orderLock, tasks, proc, wins, payVars, sku, detail, items,
                   snapshots, createLock, vip, login, vipRows>>

\* UserDesignLicenseService.bind_license applied to a SKU of design d, as its signature
\* (sku: SKU) declares it: the license row, and for a buyout or commercial plan the design
\* BOUGHT_OUT and its product taken off the shelf (update_publish_status drops the cache)
BindLicense(u, d, license_type) ==
    /\ started < MaxOps
    /\ started' = started + 1
    /\ LET b == bind_license(u, SkuObject(d, design[d].product_id), license_type)
           pr == design[d].product_id IN
       /\ license' = license \o b.rows
       /\ design' = IF b.bought_out THEN [design EXCEPT ![d].state = BOUGHT_OUT] ELSE design
       /\ product' = IF b.bought_out /\ pr # 0
                     THEN [product EXCEPT ![pr].is_published = FALSE] ELSE product
       /\ productCache' = IF b.bought_out /\ pr # 0
                          THEN [productCache EXCEPT ![pr] = NoInfo] ELSE productCache
    /\ UNCHANGED <<order, cache, orderLock, tasks, proc, wins, payVars, sku, detail, items,
                   snapshots, createLock, vip, login, vipRows>>

(* ------------------------------ specifications -------------------------- *)
LockStep(p) == AcquireOrderLock(p) \/ ReleaseOrderLock(p)

DetailStep(p) == GetDetailCache(p) \/ GetDetailDb(p) \/ GetDetailSet(p)

MarkStep(p) == MarkPaidCheck(p) \/ MarkPaidWrite(p)

CloseStep(p) ==
    \/ CloseOrderRead(p)
    \/ CloseOrderWrite(p)
    \/ CloseTimeoutRead(p)
    \/ CloseTimeoutWrite(p)

SuccessStep(p) ==
    \/ AcquireCbLock(p)
    \/ PaySuccessCheck(p)
    \/ PaySuccessRead(p)
    \/ PaySuccessSave(p)
    \/ OnPaymentSuccess(p)
    \/ \E outcome \in {"ok", "skip", "raise"} : HandleItems(p, outcome)
    \/ PaySuccessEnd(p)
    \/ ReleaseCbLock(p)

ClosedStep(p) ==
    \/ AcquireClosedLock(p)
    \/ PayClosedRead(p)
    \/ PayClosedSave(p)
    \/ ReleaseClosedLock(p)

PaymentStep(p) ==
    \/ AcquirePrepayLock(p)
    \/ CreatePaymentCache(p)
    \/ CreatePaymentCheck(p)
    \/ \E accepted \in BOOLEAN : CreatePaymentGateway(p, accepted)
    \/ CreatePaymentRead(p)
    \/ CreatePaymentSave(p)
    \/ CreatePaymentSet(p)
    \/ ReleasePrepayLock(p)

\* the order endpoints, the closure task and a caller of mark_order_as_paid, concurrently
NextOrder ==
    \/ \E u \in Users, it \in OrderItemType : CreateOrder(u, it)
    \/ \E o \in Orders : CacheExpire(o)
    \/ \E p \in Procs, o \in Orders, u \in Users : StartCloseOrder(p, o, u)
    \/ \E p \in Procs, o \in Orders : StartCloseTimeout(p, o)
    \/ \E p \in Procs, o \in Orders, t \in Times : StartMarkPaid(p, o, t)
    \/ \E p \in Procs, o \in Orders, u \in Users : StartGetDetail(p, o, u)
    \/ \E p \in Procs : LockStep(p) \/ OrderLockTimeout(p) \/ CloseStep(p) \/ DetailStep(p)
                          \/ GetDetailDone(p) \/ MarkStep(p) \/ Commit(p) \/ Finish(p)

SpecOrder == Init /\ [][NextOrder]_vars

\* the same, where every handler that can take a step does so in the end: requests and
\* task runs are carried through, and a lock that is held is released by its holder
HandlerStep(p) ==
    \/ LockStep(p) \/ OrderLockTimeout(p) \/ CloseStep(p) \/ DetailStep(p)
    \/ GetDetailDone(p) \/ MarkStep(p) \/ Commit(p) \/ Finish(p)

SpecOrderLive == Init /\ [][NextOrder]_vars /\ \A p \in Procs : WF_vars(HandlerStep(p))

\* the same, with the TTL of the order lock running out
NextLock ==
    \/ NextOrder
    \/ \E o \in Orders : OrderLockExpire(o)

SpecLock == Init /\ [][NextLock]_vars

\* the payment endpoints next to order cancellation and the closure task, concurrently
Next ==
    \/ \E u \in Users, it \in OrderItemType : CreateOrder(u, it)
    \/ \E o \in Orders : CacheExpire(o)
    \/ \E u \in Users, o \in Orders : PrepayExpire(u, o)
    \/ \E p \in Procs, o \in Orders, u \in Users : StartCloseOrder(p, o, u)
    \/ \E p \in Procs, o \in Orders : StartCloseTimeout(p, o)
    \/ \E p \in Procs, o \in Orders, u \in Users : StartCreatePayment(p, o, u)
    \/ \E p \in Procs, env \in Envelopes : Receive(p, env)
    \/ \E p \in Procs, o \in Orders \cup {0}, x \in TxIds \cup {0}, t \in Times : Dispatch(p, o, x, t)
    \/ \E p \in Procs : LockStep(p) \/ OrderLockTimeout(p) \/ CloseStep(p) \/ DetailStep(p)
                          \/ MarkStep(p) \/ Commit(p) \/ Finish(p)
    \/ \E p \in Procs : SuccessStep(p) \/ ClosedStep(p) \/ PaymentStep(p)
    \/ \E p \in Procs, matches \in BOOLEAN : CbLockTimeout(p, matches) \/ ClosedLockTimeout(p, matches)
    \/ \E p \in Procs : PrepayLockTimeout(p)

Spec == Init /\ [][Next]_vars

\* no handler running: requests arrive one after the other; orders are user 1's
Quiet == \A p \in Procs : proc[p].op = "idle"

NextSeq ==
    \/ \E it \in OrderItemType : CreateOrder(1, it)
    \/ \E o \in Orders : CacheExpire(o)
    \/ \E u \in Users, o \in Orders : PrepayExpire(u, o)
    \/ /\ Quiet
       /\ \/ \E p \in Procs, o \in Orders, u \in Users : StartCloseOrder(p, o, u)
          \/ \E p \in Procs, o \in Orders : StartCloseTimeout(p, o)
          \/ \E p \in Procs, o \in Orders, u \in Users : StartGetDetail(p, o, u)
          \/ \E p \in Procs, o \in Orders, u \in Users : StartCreatePayment(p, o, u)
          \/ \E p \in Procs, env \in Envelopes : Receive(p, env)
    \/ \E p \in Procs, o \in Orders \cup {0}, x \in TxIds \cup {0}, t \in Times : Dispatch(p, o, x, t)
    \/ \E p \in Procs : LockStep(p) \/ CloseStep(p) \/ DetailStep(p) \/ GetDetailDone(p)
                          \/ MarkStep(p) \/ Commit(p) \/ Finish(p)
    \/ \E p \in Procs : SuccessStep(p) \/ ClosedStep(p) \/ PaymentStep(p)

SpecSeq == Init /\ [][NextSeq]_vars

\* every order has been created by user 1 and create_wechat_payment has answered for it:
\* the order is PENDING and cached, its payment record NOTPAY, its parameters cached
InitPaying ==
    /\ order \in [Orders -> {[exists |-> TRUE, user_id |-> 1, status |-> PENDING, pay_time |-> 0,
                               payment_type |-> WECHAT, item_type |-> it] : it \in OrderItemType}]
    /\ pay = [o \in Orders |-> [exists |-> TRUE, trade_state |-> NOTPAY, transaction_id |-> 0]]
    /\ fulfil = [o \in Orders |-> 0]
    /\ cache = [o \in Orders |-> PENDING]
    /\ prepay = [u \in Users |-> [o \in Orders |-> IF u = 1 THEN 1 ELSE 0]]
    /\ orderLock = [o \in Orders |-> 0]
    /\ cbLock = [x \in TxIds |-> 0]
    /\ closedLock = [o \in Orders |-> 0]
    /\ prepayLock = [u \in Users |-> [o \in Orders |-> 0]]
    /\ tasks = [o \in Orders |-> MaxTasks]
    /\ sessions = [o \in Orders |-> 1]
    /\ proc = [p \in Procs |-> Idle]
    /\ started = 0
    /\ wins = [o \in Orders |-> [close |-> 0, timeout |-> 0, mark |-> 0]]
    /\ EmptyShop(Orders)
    /\ NoGrants

\* notifications and payment requests for orders that wait for their payment, concurrently
NextPaying ==
    \/ \E o \in Orders : CacheExpire(o)
    \/ \E u \in Users, o \in Orders : PrepayExpire(u, o)
    \/ \E p \in Procs, o \in Orders, u \in Users : StartCreatePayment(p, o, u)
    \/ \E p \in Procs, env \in Envelopes : Receive(p, env)
    \/ \E p \in Procs, o \in Orders \cup {0}, x \in TxIds \cup {0}, t \in Times : Dispatch(p, o, x, t)
    \/ \E p \in Procs : LockStep(p) \/ DetailStep(p) \/ MarkStep(p) \/ Finish(p)
    \/ \E p \in Procs : SuccessStep(p) \/ ClosedStep(p) \/ PaymentStep(p)
    \/ \E p \in Procs, matches \in BOOLEAN : CbLockTimeout(p, matches) \/ ClosedLockTimeout(p, matches)
    \/ \E p \in Procs : PrepayLockTimeout(p)

SpecPaying == InitPaying /\ [][NextPaying]_vars

\* the SUCCESS notification of the payment of order o, as the gateway sends and resends it
Notification == GoodEnvelope("TRANSACTION.SUCCESS", "transaction", "transaction", "transaction")
TransactionOf(o) == o

\* deliveries of the same notification, one after the other or at once
NextReplay ==
    \/ \E o \in Orders : CacheExpire(o)
    \/ \E p \in Procs : Receive(p, Notification)
    \/ \E p \in Procs, o \in Orders : Dispatch(p, o, TransactionOf(o), 1)
    \/ \E p \in Procs : SuccessStep(p) \/ LockStep(p) \/ DetailStep(p) \/ MarkStep(p) \/ Finish(p)
    \/ \E p \in Procs, matches \in BOOLEAN : CbLockTimeout(p, matches)

SpecReplay == InitPaying /\ [][NextReplay]_vars

\* payment-parameter requests for stored orders, concurrently, with the lock TTL running
NextPrepay ==
    \/ \E u \in Users, it \in OrderItemType : CreateOrder(u, it)
    \/ \E o \in Orders : CacheExpire(o)
    \/ \E u \in Users, o \in Orders : PrepayLockExpire(u, o)
    \/ \E p \in Procs, o \in Orders, u \in Users : StartCreatePayment(p, o, u)
    \/ \E p \in Procs :
         \/ PaymentStep(p)
         \/ DetailStep(p)
         \/ PrepayLockTimeout(p)
         \/ Finish(p)

SpecPrepay == Init /\ [][NextPrepay]_vars

\* a catalogue: product 1 is on sale with SKU 1, whose price, switch and stock vary;
\* product 2 and SKU 2 do not exist; the ids of the order table are those of Created
InitCatalog ==
    /\ NothingOrdered(Created)
    /\ NoGrants
    /\ product \in {[pr \in Products |->
                        IF pr = 1 THEN [exists |-> TRUE, product_type |-> ty, is_published |-> TRUE]
                        ELSE NoProduct] : ty \in ProductType}
    /\ sku \in {[s \in Skus |->
                    IF s = 1 THEN [exists |-> TRUE, product_id |-> 1, price |-> pc,
                                   is_enabled |-> en, stock |-> st]
                    ELSE NoSku] :
                pc \in Prices, en \in BOOLEAN, st \in {-1, 0, 1}}
    /\ productCache = [pr \in Products |-> NoInfo]
    /\ detail = [o \in Created |-> NoDetail]
    /\ items = [o \in Created |-> <<>>]
    /\ snapshots = [pr \in Products |-> 0]
    /\ createLock = [k \in CreateKeys |-> 0]

\* the same with one catalogue: SKU 1 is enabled, costs 1 and has unlimited stock
InitCreate ==
    /\ InitCatalog
    /\ product[1].product_type = "VIP"
    /\ sku[1].price = 1 /\ sku[1].is_enabled /\ sku[1].stock = -1

\* the steps of create_order, the clock showing one of the values of clock
CreateStep(p, clock) ==
    \/ AcquireCreateLock(p)
    \/ GetProductCache(p)
    \/ GetProductDb(p)
    \/ GetProductSet(p)
    \/ CreateOrderCheck(p)
    \/ \E now \in clock, mno, sno \in Nos : CreateOrderRow(p, now, mno, sno)
    \/ \E fails \in BOOLEAN : CreateOrderItem(p, fails)
    \/ \E fails \in BOOLEAN : CreateSnapshot(p, fails)
    \/ ScheduleClose(p)
    \/ CacheAfterCreate(p)
    \/ ReleaseCreateLock(p)
    \/ CreateOrderCommit(p)

\* POST /order/create requests for SKU 1 of product 1, concurrently, at time 1
NextCreate ==
    \/ \E p \in Procs, u \in Users : StartCreateOrder(p, u, 1, 1)
    \/ \E p \in Procs : CreateStep(p, {1}) \/ CreateLockTimeout(p) \/ Finish(p)

SpecCreate == InitCreate /\ [][NextCreate]_vars

\* POST /order/create requests one after the other, an admin changing prices between them
NextCatalog ==
    \/ \E pr \in Products : ProductCacheExpire(pr)
    \/ /\ Quiet
       /\ \/ \E pr \in Products, price \in Prices, with_product \in BOOLEAN :
               UpdateVipProduct(pr, price, with_product)
          \/ \E s \in Skus, price \in Prices : UpdateSku(s, price)
          \/ \E p \in Procs, u \in Users, pr \in Products, s \in Skus :
               StartCreateOrder(p, u, pr, s)
    \/ \E p \in Procs : CreateStep(p, Times) \/ Finish(p)

SpecCatalog == InitCatalog /\ [][NextCatalog]_vars

\* every user is without membership or holds the window [0, 30] bought with one plan;
\* every design is approved and on sale as the published product of the same number
InitFulfil ==
    /\ NothingOrdered(Orders)
    /\ vip \in [Users -> {NoMember, [exists |-> TRUE, start_time |-> 0, end_time |-> 30,
                                     total_days |-> 30]}]
    /\ license = <<>>
    /\ design = [d \in Designs |-> [exists |-> TRUE, state |-> "APPROVED", product_id |-> d]]
    /\ login = [u \in Users |-> vip[u].total_days]
    /\ vipRows = [u \in Users |-> IF vip[u].exists THEN 1 ELSE 0]
    /\ product = [pr \in Products |->
                    IF pr \in Designs
                    THEN [exists |-> TRUE, product_type |-> "DESIGN", is_published |-> TRUE]
                    ELSE NoProduct]
    /\ sku = [s \in Skus |->
                IF s \in Designs
                THEN [exists |-> TRUE, product_id |-> s, price |-> 1, is_enabled |-> TRUE,
                      stock |-> -1]
                ELSE NoSku]
    /\ productCache = [pr \in Products |-> NoInfo]
    /\ detail = [o \in Orders |-> NoDetail]
    /\ items = [o \in Orders |-> <<>>]
    /\ snapshots = [pr \in Products |-> 0]
    /\ createLock = [k \in CreateKeys |-> 0]

\* paid VIP and DESIGN items are fulfilled one after the other
NextFulfil ==
    \/ \E u \in Users, found \in BOOLEAN, days \in PlanDays, now \in VipNows :
         VipHandle(u, found, days, now)
    \/ \E u \in Users, d \in Designs, found \in BOOLEAN, license_type \in LicenseType :
         DesignHandle(u, d, found, license_type)

SpecFulfil == InitFulfil /\ [][NextFulfil]_vars

\* paid VIP orders of users without a membership, fulfilled at the same time
NextVip ==
    \/ \E p \in Procs, u \in Users, found \in BOOLEAN, days \in PlanDays, now \in VipNows :
         StartVipHandle(p, u, found, days, now)
    \/ \E p \in Procs : VipStep(p)

SpecVip == Init /\ [][NextVip]_vars

\* a request by user u for SKU s of product pr is being handled and holds the create lock
CreateLockHeld(u, pr, s) ==
    \E q \in Procs : proc[q].op = "create" /\ createLock[<<u, pr, s>>] = q

\* one user action sent twice: a POST /order/create for SKU 1 of product 1 and the same
\* request again while the first one holds order:create:<user>:1:1
NextResubmit ==
    \/ /\ Quiet
       /\ \A o \in DOMAIN order : ~order[o].exists
       /\ \E p \in Procs, u \in Users : StartCreateOrder(p, u, 1, 1)
    \/ \E u \in Users :
         /\ CreateLockHeld(u, 1, 1)
         /\ \E p \in Procs : StartCreateOrder(p, u, 1, 1)
    \/ \E p \in Procs : CreateStep(p, Times) \/ CreateLockTimeout(p) \/ Finish(p)

SpecResubmit == InitCreate /\ [][NextResubmit]_vars

\* callers of redis_client.lock for one key, with the key's TTL running
NextRedisLock ==
    \/ \E p \in Procs, o \in Orders, timeout \in Timeouts, blocking \in BOOLEAN :
         StartRedisLock(p, o, timeout, blocking)
    \/ \E p \in Procs : LockAttempt(p) \/ Finish(p)
    \/ \E p \in Procs, exc \in BOOLEAN : LeaveBlock(p, exc)
    \/ \E o \in Orders : OrderLockExpire(o)

SpecRedisLock == Init /\ [][NextRedisLock]_vars

\* every order holds a physical item, is PENDING or has been closed, and has a payment
\* record that waits for its notification; the cached detail is the one create_order wrote
\* or has expired
InitRetry ==
    /\ order \in [Orders -> {[exists |-> TRUE, user_id |-> 1, status |-> st, pay_time |-> 0,
                               payment_type |-> WECHAT, item_type |-> "physical"] :
                              st \in {PENDING, CANCELLED, TIMEOUT_CLOSED}}]
    /\ pay = [o \in Orders |-> [exists |-> TRUE, trade_state |-> NOTPAY, transaction_id |-> 0]]
    /\ fulfil = [o \in Orders |-> 0]
    /\ cache \in [Orders -> {NoCache, PENDING}]
    /\ prepay = [u \in Users |-> [o \in Orders |-> IF u = 1 THEN 1 ELSE 0]]
    /\ orderLock = [o \in Orders |-> 0]
    /\ cbLock = [x \in TxIds |-> 0]
    /\ closedLock = [o \in Orders |-> 0]
    /\ prepayLock = [u \in Users |-> [o \in Orders |-> 0]]
    /\ tasks = [o \in Orders |-> 0]
    /\ sessions = [o \in Orders |-> 1]
    /\ proc = [p \in Procs |-> Idle]
    /\ started = 0
    /\ wins = [o \in Orders |-> [close |-> 0, timeout |-> 0, mark |-> 0]]
    /\ EmptyShop(Orders)
    /\ NoGrants

\* the gateway sends the SUCCESS notification of order o (again) after the answer to the
\* previous delivery: it passes the checks of the webhook and is dispatched
Redelivery(p, o, t) ==
    /\ Quiet
    /\ p = 1
    /\ proc' = [proc EXCEPT ![p] =
                  [Idle EXCEPT !.op = "hook", !.pc = "ps_lock", !.ev = "TRANSACTION.SUCCESS",
                               !.oid = o, !.txid = TransactionOf(o), !.t = t,
                               !.pre = (order[o].exists /\ order[o].status = PENDING
                                        /\ pay[o].exists /\ pay[o].trade_state = NOTPAY)]]
    /\ UNCHANGED <<order, cache, orderLock, tasks, started, wins, payVars, shopVars, grantVars>>

RetryStep(p) == SuccessStep(p) \/ LockStep(p) \/ DetailStep(p) \/ MarkStep(p) \/ Finish(p)

NextRetry ==
    \/ \E o \in Orders : CacheExpire(o)
    \/ \E p \in Procs, o \in Orders, t \in Times : Redelivery(p, o, t)
    \/ \E p \in Procs : RetryStep(p)

\* the gateway keeps sending and every delivery is handled to its answer
SpecRetry ==
    /\ InitRetry /\ [][NextRetry]_vars
    /\ \A o \in Orders : WF_vars(\E p \in Procs, t \in Times : Redelivery(p, o, t))
    /\ \A p \in Procs : WF_vars(RetryStep(p))

\* every order holds a physical or a VIP item, is PENDING or has been closed, and has a
\* payment record that waits for its notification
InitNotify ==
    /\ order \in [Orders -> {[exists |-> TRUE, user_id |-> 1, status |-> st, pay_time |-> 0,
                               payment_type |-> WECHAT, item_type |-> it] :
                              st \in {PENDING, CANCELLED, TIMEOUT_CLOSED},
                              it \in {"physical", "vip"}}]
    /\ pay = [o \in Orders |-> [exists |-> TRUE, trade_state |-> NOTPAY, transaction_id |-> 0]]
    /\ fulfil = [o \in Orders |-> 0]
    /\ cache \in [Orders -> {NoCache, PENDING}]
    /\ prepay = [u \in Users |-> [o \in Orders |-> IF u = 1 THEN 1 ELSE 0]]
    /\ orderLock = [o \in Orders |-> 0]
    /\ cbLock = [x \in TxIds |-> 0]
    /\ closedLock = [o \in Orders |-> 0]
    /\ prepayLock = [u \in Users |-> [o \in Orders |-> 0]]
    /\ tasks = [o \in Orders |-> 0]
    /\ sessions = [o \in Orders |-> 1]
    /\ proc = [p \in Procs |-> Idle]
    /\ started = 0
    /\ wins = [o \in Orders |-> [close |-> 0, timeout |-> 0, mark |-> 0]]
    /\ EmptyShop(Orders)
    /\ NoGrants

\* the SUCCESS notification of a payment and its repeats, handled one at a time
NextNotify ==
    \/ \E o \in Orders : CacheExpire(o)
    \/ Quiet /\ \E p \in Procs : Receive(p, Notification)
    \/ \E p \in Procs, o \in Orders : Dispatch(p, o, TransactionOf(o), 1)
    \/ \E p \in Procs : SuccessStep(p) \/ LockStep(p) \/ DetailStep(p) \/ MarkStep(p) \/ Finish(p)

SpecNotify == InitNotify /\ [][NextNotify]_vars

\* licenses are bound and orders for design products are placed, one request at a time
NextLicense ==
    \/ \E pr \in Products : ProductCacheExpire(pr)
    \/ /\ Quiet
       /\ \/ \E u \in Users, d \in Designs, license_type \in LicenseType :
               BindLicense(u, d, license_type)
          \/ \E p \in Procs, u \in Users, d \in Designs : StartCreateOrder(p, u, d, d)
    \/ \E p \in Procs : CreateStep(p, {1}) \/ Finish(p)

SpecLicense == InitFulfil /\ [][NextLicense]_vars

(* -------------------------------- properties ---------------------------- *)
Stores == <<order, pay, fulfil, cache, prepay>>

\* C1: in every interleaving of createOrder, closeOrder, closeTimeoutOrder,
\* markOrderAsPaid and get_order_detail, a stored status that is PAID, CANCELLED or
\* TIMEOUT_CLOSED never changes again.
C1_TerminalIsFinal ==
    [][\A o \in Orders :
          (order[o].exists /\ order[o].status \in Terminal)
          => order'[o].status = order[o].status]_vars

\* C3: in every interleaving of handle_payment_success, handle_payment_closed and
\* create_wechat_payment, a payment record that is committed SUCCESS stays SUCCESS and
\* keeps its transaction id.
C3_SuccessIsFinal ==
    [][\A o \in Orders :
          (pay[o].exists /\ pay[o].trade_state = SUCCESS)
          => /\ pay'[o].trade_state = SUCCESS
             /\ pay'[o].transaction_id = pay[o].transaction_id]_vars

\* C4: among the markOrderAsPaid calls on an order, whatever their overlap and whatever
\* cache refills get_order_detail makes between them, at most one returns true.
C4_OneCallMarksPaid ==
    \A o \in Orders : wins[o].mark <= 1

\* C5: a closeOrder call that returns true writes CANCELLED over a stored status that is
\* PENDING, and at most one closeOrder call on an order returns true.
C5_CloseOnlyPending ==
    /\ [](\A o \in Orders : wins[o].close <= 1)
    /\ [][\A p \in Procs :
            (/\ proc[p].op = "close" /\ proc[p].pc = "commit" /\ proc[p].res = "true"
             /\ proc'[p].pc = "done")
            => order[proc[p].oid].status = PENDING]_vars

\* C6: of the deliveries of close_expired_order_task for an order, at most one
\* closeTimeoutOrder call returns true.
C6_TimeoutClosesOnce ==
    \A o \in Orders : wins[o].timeout <= 1

CryptoFails(env) ==
    \/ env.sig # "valid"
    \/ ~env.key
    \/ env.ct # "good"
    \/ env.aad \notin {env.ad, env.ot, "transaction", ""}

\* C8: a notification that fails verification or decryption is answered with a 400
\* and changes no order, payment record, fulfilment effect or cache entry.
C8_Rejected400 ==
    [][\A p \in Procs :
          (proc[p].op = "idle" /\ proc'[p].op = "hook")
          => \A env \in Envelopes :
                 (Receive(p, env) /\ CryptoFails(env))
                 => (proc'[p].pc = "done" /\ proc'[p].res = "400" /\ UNCHANGED Stores)]_vars

\* C9: dispatching a verified and decrypted notification whose event type is neither
\* TRANSACTION.SUCCESS nor TRANSACTION.CLOSED answers 200 SUCCESS at once and leaves every
\* order and payment record as it was.
C9_UnknownEventAcked ==
    [][\A p \in Procs :
          (/\ proc[p].pc = "wh_dispatch"
           /\ proc[p].ev \notin {"TRANSACTION.SUCCESS", "TRANSACTION.CLOSED"}
           /\ proc'[p] # proc[p])
          => (proc'[p].pc = "done" /\ proc'[p].res = "200" /\ UNCHANGED <<order, pay>>)]_vars

C9_Witness ==
    \E p \in Procs :
        /\ proc[p].op = "hook" /\ proc[p].pc = "done" /\ proc[p].res = "200"
        /\ proc[p].ev = "REFUND.SUCCESS"
        /\ \E o \in Orders : order[o].exists /\ pay[o].exists

\* C10: once a fulfilment handler has raised, the notification is never answered 200
\* SUCCESS: its answer is 500.
C10_HandlerFailureNotAcked ==
    \A p \in Procs :
        (proc[p].op = "hook" /\ proc[p].hr)
        => /\ proc[p].res # "200"
           /\ proc[p].pc \in {"ps_unlock", "done"} => proc[p].res = "500"

C10_Witness ==
    \E p \in Procs :
        /\ proc[p].op = "hook" /\ proc[p].hr /\ proc[p].pc = "done" /\ proc[p].res = "500"
        /\ proc[p].pre

\* C11: while an order stays PENDING the gateway holds at most one prepay session for it,
\* and every create_wechat_payment call that returned payment parameters for the same
\* (user, order) returned the parameters of the same session
C11_OnePrepaySession ==
    /\ \A o \in Orders : (order[o].exists /\ order[o].status = PENDING) => sessions[o] <= 1
    /\ \A p, q \in Procs :
         (/\ proc[p].op = "pay" /\ proc[p].pc = "done" /\ proc[p].res = "params"
          /\ proc[q].op = "pay" /\ proc[q].pc = "done" /\ proc[q].res = "params"
          /\ proc[p].oid = proc[q].oid /\ proc[p].uid = proc[q].uid)
         => proc[p].hc = proc[q].hc

RECURSIVE SumTotalPrice(_)
SumTotalPrice(its) == IF its = <<>> THEN 0 ELSE Head(its).total_price + SumTotalPrice(Tail(its))

\* C12: a create_order that succeeds for a SKU that is one of the product's SKUs, is enabled
\* and has stock other than 0 stores a PENDING order whose total amount is the SKU's price
\* in the store and the sum of its items' total prices, and whose expiry is the creation
\* time plus expire_minutes
C12_CreatedOrderMatchesSku ==
    [][\A p \in Procs :
         (/\ proc[p].op = "create" /\ proc[p].pc = "co_commit" /\ proc[p].res = "ok"
          /\ proc'[p].pc = "done"
          /\ Sellable(ProductWithSkus(proc[p].pid), proc[p].sid))
         => LET o == proc[p].oid IN
            /\ order'[o].exists /\ order'[o].status = PENDING
            /\ detail'[o].total_amount = sku[proc[p].sid].price
            /\ detail'[o].total_amount = SumTotalPrice(items'[o])
            /\ detail'[o].expire_time = proc[p].t + expire_minutes]_vars

SameNo(d1, d2) ==
    d1.merchant_order_no = d2.merchant_order_no \/ d1.serial_no = d2.serial_no

\* C13: no two stored orders share a merchant order number or a serial number, and an
\* insert whose generated number equals one already stored does not go through: no open
\* transaction holds a row that shares a number with a stored order or with the row of
\* another open transaction
C13_UniqueNumbers ==
    /\ \A o1, o2 \in DOMAIN order :
         (o1 # o2 /\ order[o1].exists /\ order[o2].exists) => ~SameNo(detail[o1], detail[o2])
    /\ \A p \in Procs : \A o \in DOMAIN order :
         (proc[p].new.w /\ order[o].exists) => ~SameNo(proc[p].new.detail, detail[o])
    /\ \A p, q \in Procs :
         (p # q /\ proc[p].new.w /\ proc[q].new.w)
         => ~SameNo(proc[p].new.detail, proc[q].new.detail)

\* a create_order that passed validation has failed at Order.create, next to a stored
\* order and with nothing of its own written, and has ended
C13_Witness ==
    \E p \in Procs :
        /\ proc[p].op = "create" /\ proc[p].pc = "done" /\ proc[p].res = "raise"
        /\ Sellable(proc[p].info, proc[p].sid)
        /\ proc[p].oid = 0
        /\ Cardinality({o \in DOMAIN order : order[o].exists}) = 1

\* the stored orders whose item is of product pr
OrdersOf(pr) ==
    {o \in DOMAIN order : order[o].exists /\ items[o] # <<>> /\ items[o][1].product_id = pr}

\* C14: create_order is all or nothing: every stored order has its order item and its
\* product snapshot and nothing is stored without an order; a create_order that fails
\* leaves the order, order_item and product_snapshot tables as they were, and one that
\* succeeds adds one row to each
C14_AllOrNothing ==
    /\ [](/\ \A o \in DOMAIN order :
               IF order[o].exists THEN Len(items[o]) = 1
               ELSE items[o] = <<>> /\ detail[o] = NoDetail
          /\ \A pr \in Products : snapshots[pr] = Cardinality(OrdersOf(pr)))
    /\ [][\A p \in Procs :
            (proc[p].op = "create" /\ proc[p].pc = "co_commit" /\ proc'[p].pc = "done")
            => IF proc[p].res = "ok"
               THEN /\ ~order[proc[p].oid].exists /\ order'[proc[p].oid].exists
                    /\ Len(items'[proc[p].oid]) = 1
                    /\ snapshots'[proc[p].pid] = snapshots[proc[p].pid] + 1
               ELSE UNCHANGED <<order, detail, items, snapshots>>]_vars

\* a create_order whose Order.create went through has failed at a later write and has
\* ended: the order it had inserted is not stored
C14_Witness ==
    \E p \in Procs :
        /\ proc[p].op = "create" /\ proc[p].pc = "done" /\ proc[p].res = "raise"
        /\ proc[p].oid # 0
        /\ ~order[proc[p].oid].exists

\* the membership the specification asks for after a plan of d days is fulfilled at now
VipReference(m, d, now) ==
    CASE ~m.exists ->
           [exists |-> TRUE, start_time |-> now, end_time |-> now + d, total_days |-> d]
      [] m.exists /\ m.end_time > now ->
           [exists |-> TRUE, start_time |-> m.start_time, end_time |-> m.end_time + d,
            total_days |-> m.total_days + d]
      [] m.exists /\ m.end_time <= now ->
           [exists |-> TRUE, start_time |-> now, end_time |-> now + d,
            total_days |-> m.total_days + d]

\* C15: fulfilling a plan of d days for a user leaves that user's membership equal to the
\* reference: created [now, now + d] with d total days when there was none; end and total
\* days moved by d, start kept, when the end lay after now; restarted [now, now + d] with
\* total days raised by d when the end was at or before now
C15_VipMatchesReference ==
    [][\A u \in Users, d \in PlanDays, now \in VipNows :
         VipHandle(u, TRUE, d, now) => vip'[u] = VipReference(vip[u], d, now)]_vars

\* a user who had 10 days left at day 20 and bought 30 days holds the window [0, 60]:
\* 40 days are left; another window was created or restarted at a later day
C15_Witness ==
    /\ \E u \in Users : vip[u] = [exists |-> TRUE, start_time |-> 0, end_time |-> 60,
                                  total_days |-> 60]
    /\ \E u \in Users : vip[u].exists /\ vip[u].start_time > 0

\* C16: the fulfilment of a paid DESIGN item whose product, SKU and plan exist adds exactly
\* one license row, for the buyer and the design; with a buyout or commercial plan the
\* design is BOUGHT_OUT afterwards and the product of the design is unpublished
C16_DesignLicenseBound ==
    [][\A u \in Users, d \in Designs, license_type \in LicenseType :
         DesignHandle(u, d, TRUE, license_type)
         => /\ Len(license') = Len(license) + 1
            /\ license'[Len(license')].user_id = u
            /\ license'[Len(license')].design_id = d
            /\ license_type \in {"buyout", "commercial"}
               => /\ design'[d].state = BOUGHT_OUT
                  /\ ~product'[design[d].product_id].is_published]_vars

\* C17: a handle_payment_success that gives up waiting for the lock of its transaction id
\* changes nothing in the stores and the notification is answered 200, whether or not a
\* SUCCESS record with that transaction id is committed
C17_LockTimeoutAcked ==
    [][\A p \in Procs :
         (/\ proc[p].op = "hook" /\ proc[p].pc = "ps_lock"
          /\ cbLock[proc[p].txid] # 0
          /\ proc'[p].pc = "done")
         => (proc'[p].res = "200" /\ UNCHANGED Stores)]_vars

\* close_order, close_timeout_order or mark_order_as_paid of order o, after its status read
\* and before its status write
BetweenReadAndWrite(p, o) ==
    /\ proc[p].oid = o
    /\ proc[p].op \in {"close", "timeout", "mark"}
    /\ proc[p].pc \in {"co_write", "ct_write", "mp_check", "mp_write"}

\* C18: for each order at most one of close_order, close_timeout_order and mark_order_as_paid
\* is between its status read and its status write, and the order row is written (the update
\* statement and the commit that makes it visible) only by the holder of order:modify:<id>
C18_OrderLockExcludes ==
    /\ [](\A o \in Orders : Cardinality({p \in Procs : BetweenReadAndWrite(p, o)}) <= 1)
    /\ [][\A p \in Procs :
            (/\ proc[p].op \in {"close", "timeout", "mark"}
             /\ \/ (~proc[p].txo.w /\ proc'[p].txo.w)
                \/ order'[proc[p].oid] # order[proc[p].oid] /\ proc[p].pc = "commit")
            => orderLock[proc[p].oid] = p]_vars

\* C19: once a status change by close_order, close_timeout_order or mark_order_as_paid is
\* committed, the entry order_detail:item:<id> holds no other status than the stored one,
\* and a get_order_detail answered after it returns the stored status
C19_DetailCacheCoherent ==
    /\ \A o \in Orders :
         (Quiet /\ order[o].exists /\ cache[o] # NoCache) => cache[o] = order[o].status
    /\ \A p \in Procs :
         (/\ proc[p].op = "detail" /\ proc[p].pc = "done" /\ proc[p].res # "raise"
          /\ \A q \in Procs \ {p} : proc[q].op = "idle")
         => proc[p].res = order[proc[p].oid].status

\* the payment record of order o is absent, SUCCESS or CLOSED
NotToBeClosed(o) == ~pay[o].exists \/ pay[o].trade_state \in {SUCCESS, CLOSED}

\* C20: handle_payment_closed writes the payment record only when it exists and is neither
\* SUCCESS nor CLOSED, and then sets it CLOSED; when the record is SUCCESS, CLOSED or absent
\* the handler changes no store and the notification is answered 200
C20_ClosedOnlyOpenRecord ==
    [][\A p \in Procs :
         LET o == proc[p].oid IN
         /\ (proc[p].pc = "pc_save" /\ proc'[p] # proc[p] /\ pay' # pay)
            => (~NotToBeClosed(o) /\ pay'[o].trade_state = CLOSED)
         /\ (/\ \/ proc[p].pc = "pc_read" /\ proc'[p] # proc[p]
                \/ proc[p].pc = "pc_lock" /\ proc'[p].pc = "done"
                \/ proc[p].pc = "pc_save" /\ proc'[p] # proc[p]
             /\ NotToBeClosed(o))
            => (UNCHANGED Stores /\ proc'[p].res = "200")]_vars

ExclusiveRows(d) ==
    {i \in 1..Len(license) : license[i].design_id = d /\ license[i].is_buyout}

ForeignClose(p) ==
    /\ proc[p].op = "close"
    /\ order[proc[p].oid].exists
    /\ order[proc[p].oid].user_id # proc[p].uid

\* no step of a close_order for another user's order writes the order
ForeignCloseWritesNothing ==
    [][\A p \in Procs :
         (ForeignClose(p) /\ proc'[p] # proc[p])
         => (order' = order /\ ~proc'[p].txo.w)]_vars

\* C23 as stated: close_order called with a user id other than the order's returns False
\* and leaves the order unchanged
C23_ForeignCloseReturnsFalse ==
    /\ [](\A p \in Procs : (ForeignClose(p) /\ proc[p].pc = "done") => proc[p].res = "false")
    /\ ForeignCloseWritesNothing

\* C23 amended: close_order called with a user id other than the order's raises
\* (it returns neither True nor False) and leaves the order unchanged
C23_ForeignCloseRaises ==
    /\ [](\A p \in Procs : (ForeignClose(p) /\ proc[p].pc = "done") => proc[p].res = "raise")
    /\ ForeignCloseWritesNothing

\* user 2 has asked to cancel the pending order of user 1 and got the error
C23_Witness ==
    \E p \in Procs :
        /\ ForeignClose(p) /\ proc[p].pc = "done" /\ proc[p].res = "raise"
        /\ order[proc[p].oid].status = PENDING

\* the stored orders of user u for SKU s of product pr
OrdersFor(u, pr, s) ==
    {o \in DOMAIN order : /\ order[o].exists /\ order[o].user_id = u
                          /\ items[o] # <<>>
                          /\ items[o][1].product_id = pr /\ items[o][1].sku_id = s}

\* C24: a create_order and the same call again, started while the first holds
\* order:create:<user>:<product>:<sku>, store at most one order between them
C24_ResubmitStoresOne ==
    \A u \in Users : Cardinality(OrdersFor(u, 1, 1)) <= 1

\* the number of calls of lock_manager.lock the claim allows for a RedisLock
AttemptsAllowed(timeout, blocking) ==
    CASE ~blocking -> 1
      [] timeout = None -> DefaultRetries
      [] OTHER -> (timeout * 10) \div 100

\* C25: __aenter__ of a RedisLock with timeout t calls lock_manager.lock at most int(t * 10)
\* times (100 times without a timeout, once when not blocking) and ends holding the lock or
\* raising; a failed __aenter__ releases nothing, and leaving the block releases the lock
\* that was acquired
C25_BoundedAcquire ==
    /\ [](\A p \in Procs :
            proc[p].op = "redislock"
            => proc[p].tries <= AttemptsAllowed(proc[p].timeout, proc[p].blocking))
    /\ [][\A p \in Procs :
            /\ (proc[p].pc = "rl_enter" /\ proc'[p].pc = "rl_body")
               => orderLock'[proc[p].oid] = p
            /\ (proc[p].pc = "rl_enter" /\ proc'[p].pc = "done")
               => (proc'[p].res = "raise" /\ orderLock' = orderLock)
            /\ (proc[p].pc = "rl_body" /\ proc'[p].pc = "done")
               => orderLock'[proc[p].oid] # p]_vars

\* C26: once the closure task of a stored order has been delivered, the order reaches
\* PAID, CANCELLED or TIMEOUT_CLOSED
C26_OrderEndsTerminal ==
    \A o \in Orders :
        (order[o].exists /\ tasks[o] < MaxTasks) ~> (order[o].status \in Terminal)

\* C27: when the gateway keeps delivering the SUCCESS notification of an order that has a
\* payment record, some delivery is answered 200, whether the order was PENDING, CANCELLED
\* or TIMEOUT_CLOSED at the start
C27_EventuallyAcked ==
    \A o \in Orders :
        <>(\E p \in Procs : /\ proc[p].op = "hook" /\ proc[p].oid = o
                            /\ proc[p].pc = "done" /\ proc[p].res = "200")

\* C28: with requests handled one at a time, create_wechat_payment answers with payment
\* parameters only for a stored order that is PENDING and belongs to the caller when the
\* request is handled, whether or not parameters were issued for it before
C28_ParamsOnlyForPending ==
    \A p \in Procs :
        (proc[p].op = "pay" /\ proc[p].pc = "done" /\ proc[p].res = "params")
        => /\ order[proc[p].oid].exists
           /\ order[proc[p].oid].status = PENDING
           /\ order[proc[p].oid].user_id = proc[p].uid


\* C29: when handle_payment_success fails (on_payment_success returned False, the
\* transaction rolls back and the webhook answers 500), the order, the payment
\* record, the fulfilment, membership and license rows are as before the call, and so is
\* the cached login_user_info: handlers run one at a time here, so before the call it
\* showed the stored membership days, and it still shows them after it
C29_FailureLeavesNothing ==
    [][\A p \in Procs :
         (proc[p].op = "hook" /\ proc[p].pc = "ps_end" /\ proc'[p].pc = "ps_unlock"
          /\ ~proc[p].ok)
         => /\ UNCHANGED <<order, pay, fulfil, vip, license>>
            /\ proc'[p].res = "500"
            /\ \A u \in Users : login'[u] = VipDaysStored(u)]_vars


\* the VIP fulfilments of user u that have returned
VipDone(u) == {p \in Procs : proc[p].op = "vip" /\ proc[p].uid = u /\ proc[p].pc = "done"
                             /\ proc[p].res = "ok"}

RECURSIVE SumDays(_)
SumDays(S) ==
    IF S = {} THEN 0
    ELSE LET p == CHOOSE x \in S : TRUE IN proc[p].days + SumDays(S \ {p})

\* C30: once the VIP orders of a user have been fulfilled, possibly at the same time, the
\* user has exactly one membership record and its total_days is the sum of the plan days
\* of those orders
C30_OneRecordAllDays ==
    \A u \in Users :
      ((\A p \in Procs : (proc[p].op = "vip" /\ proc[p].uid = u) => proc[p].pc = "done")
       /\ SumDays(VipDone(u)) > 0)
      => /\ vipRows[u] = 1
         /\ vip[u].total_days = SumDays(VipDone(u))

====
